---- MODULE Spec2Model ----
(***************************************************************************)
(* Model of the Bruker BES3T decoder of spektro_db                          *)
(* (src/data_management/data_loader.py): read_dsc_file's alias step,        *)
(* load's format resolution, axis construction, get_matrix, the scaling     *)
(* stage and parse_field_params.                                            *)
(*                                                                          *)
(* Text is a sequence of one-character strings.  Numbers read by float()    *)
(* are exact rationals [n, d]; only finite decimal literals are modelled.   *)
(* A binary file is a sequence of bytes (0..255) or NoFile.                 *)
(***************************************************************************)
EXTENDS Integers, Sequences, FiniteSets, TLC

\* ------------------------------------------------------------------ bounds
\* Largest point count offered for XPTS / YPTS / ZPTS.
MaxPts == 3
\* Largest number of bytes of the binary data file.
MaxFileBytes == 8

\* -------------------------------------------------------------------- text
LowerChars == <<"a","b","c","d","e","f","g","h","i","j","k","l","m",
                "n","o","p","q","r","s","t","u","v","w","x","y","z">>
UpperChars == <<"A","B","C","D","E","F","G","H","I","J","K","L","M",
                "N","O","P","Q","R","S","T","U","V","W","X","Y","Z">>
Digits == <<"0","1","2","3","4","5","6","7","8","9">>
DigitSet == {Digits[i] : i \in 1..Len(Digits)}
LowerSet == {LowerChars[i] : i \in 1..Len(LowerChars)}
UpperSet == {UpperChars[i] : i \in 1..Len(UpperChars)}
WhiteSet == {" ", "\t", "\n"}

\* str.upper() on one character.
UpperChar(c) ==
    IF c \in LowerSet
    THEN UpperChars[CHOOSE i \in 1..Len(LowerChars) : LowerChars[i] = c]
    ELSE c

\* str.lower() on one character.
LowerChar(c) ==
    IF c \in UpperSet
    THEN LowerChars[CHOOSE i \in 1..Len(UpperChars) : UpperChars[i] = c]
    ELSE c

\* str.upper()
Upper(s) == [i \in 1..Len(s) |-> UpperChar(s[i])]

\* str.lower()
Lower(s) == [i \in 1..Len(s) |-> LowerChar(s[i])]

\* str.isupper(): at least one cased character and no lower-case one.
IsUpper(s) ==
    /\ \E i \in 1..Len(s) : s[i] \in UpperSet
    /\ \A i \in 1..Len(s) : s[i] \notin LowerSet

\* First index of s holding a character of cs, 0 when there is none.
IndexOf(s, cs) ==
    IF \E i \in 1..Len(s) : s[i] \in cs
    THEN CHOOSE i \in 1..Len(s) :
            /\ s[i] \in cs
            /\ \A j \in 1..(i - 1) : s[j] \notin cs
    ELSE 0

\* str.strip()
RECURSIVE Strip(_)
Strip(s) ==
    IF s = <<>> THEN s
    ELSE IF s[1] \in WhiteSet THEN Strip(Tail(s))
    ELSE IF s[Len(s)] \in WhiteSet THEN Strip(SubSeq(s, 1, Len(s) - 1))
    ELSE s

\* str.split(","): the pieces between the commas, at least one piece.
RECURSIVE SplitComma(_)
SplitComma(s) ==
    LET p == IndexOf(s, {","})
    IN  IF p = 0 THEN <<s>>
        ELSE <<SubSeq(s, 1, p - 1)>> \o SplitComma(SubSeq(s, p + 1, Len(s)))

\* x in s for a one-character x (Python's substring test on a string).
Contains(s, c) == \E i \in 1..Len(s) : s[i] = c

AllDigits(s) == \A i \in 1..Len(s) : s[i] \in DigitSet

DigitVal(c) == (CHOOSE i \in 1..Len(Digits) : Digits[i] = c) - 1

RECURSIVE DigitsVal(_)
DigitsVal(s) ==
    IF s = <<>> THEN 0
    ELSE DigitsVal(SubSeq(s, 1, Len(s) - 1)) * 10 + DigitVal(s[Len(s)])

RECURSIVE Pow10(_)
Pow10(k) == IF k <= 0 THEN 1 ELSE 10 * Pow10(k - 1)

\* Digits with single underscores between them, as int() and float() accept.
RECURSIVE DropUnderscores(_)
DropUnderscores(s) ==
    IF s = <<>> THEN s
    ELSE IF s[1] = "_" THEN DropUnderscores(Tail(s))
    ELSE <<s[1]>> \o DropUnderscores(Tail(s))

GroupedDigits(s) ==
    /\ Len(s) > 0
    /\ s[1] \in DigitSet
    /\ s[Len(s)] \in DigitSet
    /\ \A i \in 1..Len(s) : s[i] \in DigitSet \cup {"_"}
    /\ \A i \in 1..(Len(s) - 1) : ~(s[i] = "_" /\ s[i + 1] = "_")

\* A text without its leading sign, and the sign.
Unsigned(t) == IF t # <<>> /\ t[1] \in {"+", "-"} THEN Tail(t) ELSE t
SignOf(t) == IF t # <<>> /\ t[1] = "-" THEN -1 ELSE 1

IntOfBody(sgn, body) ==
    IF GroupedDigits(body)
    THEN [ok |-> TRUE, val |-> sgn * DigitsVal(DropUnderscores(body))]
    ELSE [ok |-> FALSE, val |-> 0]

IntOfStripped(t) == IntOfBody(SignOf(t), Unsigned(t))

\* int(s) for a str: [ok |-> FALSE] stands for ValueError.
IntParse(s) == IntOfStripped(Strip(s))

\* ---------------------------------------------------------------- rationals
Rat(n, d) == [n |-> n, d |-> d]
RInt(k) == Rat(k, 1)
RAdd(a, b) == Rat(a.n * b.d + b.n * a.d, a.d * b.d)
RSub(a, b) == Rat(a.n * b.d - b.n * a.d, a.d * b.d)
RMulInt(k, a) == Rat(k * a.n, a.d)
RDivInt(a, k) == Rat(a.n, a.d * k)
REq(a, b) == a.n * b.d = b.n * a.d
RIsZero(a) == a.n = 0
RPos(a) == a.n > 0

\* The literal grammar of _NUMBER_RE: [+-]?(\d+(\.\d*)?|\.\d+)([eE][+-]?\d+)?
FractionOK(ip, fp) ==
    /\ AllDigits(ip)
    /\ AllDigits(fp)
    /\ (Len(ip) > 0 \/ Len(fp) > 0)

MantissaAt(m, p) ==
    IF p = 0 THEN Len(m) > 0 /\ AllDigits(m)
    ELSE FractionOK(SubSeq(m, 1, p - 1), SubSeq(m, p + 1, Len(m)))

MantissaOK(m) == MantissaAt(m, IndexOf(m, {"."}))

DigitsOK(b) == Len(b) > 0 /\ AllDigits(b)

ExponentOK(e) == DigitsOK(Unsigned(e))

ReMatchAt(u, q) ==
    IF q = 0 THEN MantissaOK(u)
    ELSE MantissaOK(SubSeq(u, 1, q - 1)) /\ ExponentOK(SubSeq(u, q + 1, Len(u)))

\* The text a pattern ending in $ is matched against: $ also matches before
\* a newline that ends the text.
BeforeNewline(s) ==
    IF s # <<>> /\ s[Len(s)] = "\n" THEN SubSeq(s, 1, Len(s) - 1) ELSE s

ReMatch(u) == ReMatchAt(u, IndexOf(u, {"e", "E"}))

NumberReMatch(s) == ReMatch(Unsigned(BeforeNewline(s)))

\* The value of a literal that NumberReMatch accepts: the digits of the
\* mantissa scaled by ten to the exponent less the number of fraction digits.
LitRat(v, sc) == IF sc >= 0 THEN Rat(v * Pow10(sc), 1) ELSE Rat(v, Pow10(0 - sc))

LitScaled(sgn, ip, fp, ev) == LitRat(sgn * DigitsVal(ip \o fp), ev - Len(fp))

LitMantissa(sgn, m, p, ev) ==
    IF p = 0 THEN LitScaled(sgn, m, <<>>, ev)
    ELSE LitScaled(sgn, SubSeq(m, 1, p - 1), SubSeq(m, p + 1, Len(m)), ev)

LitParts(sgn, m, e) ==
    LitMantissa(sgn, m, IndexOf(m, {"."}), SignOf(e) * DigitsVal(Unsigned(e)))

LitSplit(sgn, u, q) ==
    IF q = 0 THEN LitParts(sgn, u, <<>>)
    ELSE LitParts(sgn, SubSeq(u, 1, q - 1), SubSeq(u, q + 1, Len(u)))

LitOf(sgn, u) == LitSplit(sgn, u, IndexOf(u, {"e", "E"}))

LiteralValue(s) == LitOf(SignOf(s), Unsigned(BeforeNewline(s)))

FloatOfStripped(t) ==
    IF NumberReMatch(t)
    THEN [ok |-> TRUE, val |-> LiteralValue(t)]
    ELSE [ok |-> FALSE, val |-> Rat(0, 1)]

\* float(s) for a str holding a finite decimal literal; [ok |-> FALSE] stands
\* for ValueError.
FloatParse(s) == FloatOfStripped(Strip(s))

\* -------------------------------------------------------------------- state
VARIABLES
    fs,              \* the files next to the base name: suffix -> content
    file_extension,  \* load's argument file_extension
    scaling,         \* load's argument scaling
    pc,              \* position of the load call
    parameters,      \* the descriptor mapping (str -> str)
    is_complex,      \* one flag per IKKF channel
    n_data_values,   \* number of IKKF channels
    dimensions,      \* <<nx, ny, nz>>
    byte_order,      \* "ieee-be" or "ieee-le"
    number_format,   \* numpy type code "i1" ... "f8"
    ax,              \* index of the axis the loop is at (1 = X, 2 = Y, 3 = Z)
    abscissa_list,   \* the axis built for each position, None when none
    axis_defined,    \* whether an axis was built for each position
    abscissa,        \* the consolidated abscissa
    raw_size,        \* number of raw values kept from the data file
    data,            \* the data array: [flat, shape, cplx]
    applied,         \* the corrections applied to data, in order
    warnings,        \* the warnings emitted so far, in order
    error,           \* the exception that ended the call, NoError when none
    result,          \* the returned parameters of parse_field_params
    i_lines,         \* read_dsc_file's i, the index into lines (from 0)
    line,            \* read_dsc_file's line, the logical line being joined
    processed_lines, \* read_dsc_file's processed_lines
    starts,          \* the values i had when a logical line was begun
    warnings_mod,    \* the warnings module: its action and the registry of
                     \* the warnings already shown from data_loader
    previous,        \* what the previous equal call of load gave, if any
    h5obj,           \* the fields of an H5Object
    h5node,          \* the node of the hdf5 file: its attrs and its items
    h5log,           \* the node as opened and the calls made on the H5Object
    h5raised         \* what the last call on the H5Object raised

inputs == <<fs, file_extension, scaling>>
resolved == <<is_complex, n_data_values, dimensions, byte_order, number_format>>
axes == <<ax, abscissa_list, axis_defined>>
joining == <<i_lines, line, processed_lines, starts>>
calls == <<warnings_mod, previous>>
h5vars == <<h5obj, h5node, h5log, h5raised>>
vars == <<fs, file_extension, scaling, pc, parameters, is_complex, n_data_values,
          dimensions, byte_order, number_format, ax, abscissa_list, axis_defined,
          abscissa, raw_size, data, applied, warnings, error, result,
          i_lines, line, processed_lines, starts, warnings_mod, previous,
          h5obj, h5node, h5log, h5raised>>

None == "None"
NoError == [exc |-> "none", msg |-> "none"]
Err(exc, msg) == [exc |-> exc, msg |-> msg]
\* One warnings.warn call: what it is about and, for an axis, which one.
W(tag, i) == [w |-> tag, axis |-> i]

\* dict.get(key, default) and key in dict
Has(d, k) == k \in DOMAIN d
Get(d, k, default) == IF k \in DOMAIN d THEN d[k] ELSE default
\* d[k] = v for a dict
Put(d, k, v) == [x \in DOMAIN d \cup {k} |-> IF x = k THEN v ELSE d[x]]

\* ---------------------------------------------------------- read_dsc_file
\* The alias step that ends read_dsc_file: a present, non-empty XNAM (YNAM)
\* populates XAXIS_NAME and XAXIS_UNIT, the unit read by subscript.
AliasAxis(d, nam, uni, cname, cuni) ==
    IF Has(d, nam) /\ d[nam] # <<>>
    THEN IF Has(d, uni)
         THEN [ok |-> TRUE, d |-> Put(Put(d, cname, d[nam]), cuni, d[uni])]
         ELSE [ok |-> FALSE, d |-> d]
    ELSE [ok |-> TRUE, d |-> d]

AliasKeys(d) ==
    LET x == AliasAxis(d, "XNAM", "XUNI", "XAXIS_NAME", "XAXIS_UNIT")
    IN  IF ~x.ok THEN x
        ELSE AliasAxis(x.d, "YNAM", "YUNI", "YAXIS_NAME", "YAXIS_UNIT")

\* The suffixes load derives from the case of file_extension.
DscSuffix == IF IsUpper(file_extension) THEN ".DSC" ELSE ".dsc"
DtaSuffix == IF IsUpper(file_extension) THEN ".DTA" ELSE ".dta"

\* load, up to and including the call of read_dsc_file.
ReadDsc ==
    /\ pc = "start"
    /\ IF ~Has(fs, DscSuffix)
       THEN /\ pc' = "aborted"
            /\ error' = Err("FileNotFoundError", "dsc")
            /\ UNCHANGED parameters
       ELSE LET a == AliasKeys(fs[DscSuffix])
            IN  IF a.ok
                THEN /\ pc' = "resolve"
                     /\ parameters' = a.d
                     /\ UNCHANGED error
                ELSE /\ pc' = "aborted"
                     /\ error' = Err("KeyError", "unit")
                     /\ UNCHANGED parameters
    /\ UNCHANGED <<inputs, joining, calls, h5vars,
                   resolved, axes, abscissa, raw_size, data, applied,
                   warnings, result>>

\* ------------------------------------------- read_dsc_file, from the text
\* The descriptor file as readlines() gives it: a sequence of lines, each a
\* sequence of characters.  "\\" is the one-character continuation marker.
Marker == "\\"

\* line.endswith("\\")
EndsWithMarker(l) == Len(l) > 0 /\ l[Len(l)] = Marker

\* line[:-1]
DropLast(l) == SubSeq(l, 1, Len(l) - 1)

\* line[:-1] + lines[i].strip()
JoinKeepingMarker(l, next) == l \o Strip(next)

JoinWith(l, next) == DropLast(l) \o Strip(next)

\* line.replace("\\n", "\n"): every backslash followed by n, left to right.
RECURSIVE ReplaceEscaped(_)
ReplaceEscaped(l) ==
    IF Len(l) < 2 THEN l
    ELSE IF l[1] = Marker /\ l[2] = "n"
    THEN <<"\n">> \o ReplaceEscaped(SubSeq(l, 3, Len(l)))
    ELSE <<l[1]>> \o ReplaceEscaped(Tail(l))

\* line.split(maxsplit=1): the first run of non-blank characters, and what
\* follows the blanks after it.
RestAfterKey(l, p) == IF p = 0 THEN <<>> ELSE Strip(SubSeq(l, p, Len(l)))
KeyUpTo(l, p) == IF p = 0 THEN l ELSE SubSeq(l, 1, p - 1)
SplitAt(l, p) == [key |-> KeyUpTo(l, p), rest |-> RestAfterKey(l, p)]
SplitOnce(l) == SplitAt(Strip(l), IndexOf(Strip(l), WhiteSet))

\* The surrounding single quotes of a value are removed.
Unquote(v) ==
    IF Len(v) >= 2 /\ v[1] = "'" /\ v[Len(v)] = "'"
    THEN SubSeq(v, 2, Len(v) - 1)
    ELSE v

sMHL == <<"#","M","H","L">>
\* key.upper() == "#MHL"
IsHistoryMarker(k) == Upper(k) = sMHL
\* key[0].isalpha()
StartsWithLetter(k) == k[1] \in LowerSet \cup UpperSet

\* The str a key's characters spell, for the keys the descriptors here hold.
KeyTable ==
    << <<"XPTS", <<"X","P","T","S">> >>,
       <<"IRFMT", <<"I","R","F","M","T">> >>,
       <<"BSEQ", <<"B","S","E","Q">> >>,
       <<"XNAM", <<"X","N","A","M">> >>,
       <<"TITL", <<"T","I","T","L">> >>,
       <<"titl", <<"t","i","t","l">> >> >>
KeyStr(k) == KeyTable[CHOOSE n \in 1..Len(KeyTable) : KeyTable[n][2] = k][1]

\* One pass of the loop over processed_lines: "skip", "stop" or an entry.
LineOf(parts) ==
    IF parts.key = <<>> THEN [kind |-> "skip"]
    ELSE IF IsHistoryMarker(parts.key) THEN [kind |-> "stop"]
    ELSE IF ~StartsWithLetter(parts.key) THEN [kind |-> "skip"]
    ELSE [kind |-> "entry", key |-> KeyStr(parts.key),
          value |-> Unquote(parts.rest)]
ParseLine(l) == LineOf(SplitOnce(l))

\* The loop over processed_lines that goes on after the history marker.
RECURSIVE EntriesPastMarker(_, _, _)
EntriesPastMarker(ls, k, d) ==
    IF k > Len(ls) THEN d
    ELSE IF ParseLine(ls[k]).kind = "entry"
    THEN EntriesPastMarker(ls, k + 1,
                           Put(d, ParseLine(ls[k]).key, ParseLine(ls[k]).value))
    ELSE EntriesPastMarker(ls, k + 1, d)

\* The loop over processed_lines, from line k on, d the entries so far.
RECURSIVE EntriesFrom(_, _, _)
EntriesFrom(ls, k, d) ==
    IF k > Len(ls) \/ ParseLine(ls[k]).kind = "stop" THEN d
    ELSE IF ParseLine(ls[k]).kind = "entry"
    THEN EntriesFrom(ls, k + 1,
                     Put(d, ParseLine(ls[k]).key, ParseLine(ls[k]).value))
    ELSE EntriesFrom(ls, k + 1, d)

\* load, up to the readlines() of read_dsc_file.
OpenDsc ==
    /\ pc = "start"
    /\ IF ~Has(fs, DscSuffix)
       THEN pc' = "aborted" /\ error' = Err("FileNotFoundError", "dsc")
       ELSE pc' = "join" /\ UNCHANGED error
    /\ UNCHANGED <<inputs, joining, calls, h5vars, parameters, resolved, axes,
                   abscissa, raw_size, data, applied, warnings, result>>

\* The head of the outer while loop and line = lines[i].strip().
JoinLine ==
    /\ pc = "join"
    /\ IF i_lines < Len(fs[DscSuffix])
       THEN /\ line' = Strip(fs[DscSuffix][i_lines + 1])
            /\ starts' = Append(starts, i_lines)
            /\ pc' = "continue"
       ELSE /\ pc' = "parse"
            /\ UNCHANGED <<line, starts>>
    /\ UNCHANGED <<inputs, i_lines, processed_lines, calls, h5vars, parameters,
                   resolved, axes, abscissa, raw_size, data, applied, warnings,
                   error, result>>

\* The head of the inner while loop with one pass of its body, or the two
\* statements that follow it.
ContinueLine ==
    /\ pc = "continue"
    /\ i_lines' = i_lines + 1
    /\ IF EndsWithMarker(line)
       THEN /\ line' = IF i_lines + 1 < Len(fs[DscSuffix])
                       THEN JoinWith(line, fs[DscSuffix][i_lines + 2])
                       ELSE DropLast(line)
            /\ pc' = "continue"
            /\ UNCHANGED processed_lines
       ELSE /\ processed_lines' = Append(processed_lines, ReplaceEscaped(line))
            /\ pc' = "join"
            /\ UNCHANGED line
    /\ UNCHANGED <<inputs, starts, calls, h5vars, parameters, resolved, axes,
                   abscissa, raw_size, data, applied, warnings, error, result>>

\* The loop over processed_lines and the alias step, to the return.
ParseLines ==
    /\ pc = "parse"
    /\ \E a \in {AliasKeys(EntriesFrom(processed_lines, 1, <<>>))} :
          IF a.ok
          THEN pc' = "resolve" /\ parameters' = a.d /\ UNCHANGED error
          ELSE /\ pc' = "aborted"
               /\ error' = Err("KeyError", "unit")
               /\ UNCHANGED parameters
    /\ UNCHANGED <<inputs, joining, calls, h5vars, resolved, axes, abscissa,
                   raw_size, data, applied, warnings, result>>

\* ------------------------------------------------------ format resolution
sCPLX == <<"C","P","L","X">>
sBIG == <<"B","I","G">>
sLIT == <<"L","I","T">>

\* [p.strip().upper() == "CPLX" for p in parts]
ComplexFlags(parts) ==
    [n |-> Len(parts),
     flags |-> [i \in 1..Len(parts) |-> Upper(Strip(parts[i])) = sCPLX],
     warns |-> <<>>]

\* is_complex and n_data_values from IKKF.
ResolveComplex(p) ==
    IF Has(p, "IKKF") THEN ComplexFlags(SplitComma(p["IKKF"]))
    ELSE [n |-> 1, flags |-> <<FALSE>>, warns |-> <<W("ikkf_missing", 0)>>]

\* int(parameters.get(key, default)): the default is an int already.
DimOf(p, key, default) ==
    IF Has(p, key) THEN IntParse(p[key]) ELSE [ok |-> TRUE, val |-> default]

\* DimsOf without the nx == 0 test.
DimsOfNoZeroTest(nx, ny, nz) ==
    IF ~(nx.ok /\ ny.ok /\ nz.ok)
    THEN [err |-> Err("ValueError", "dims_unparsable"), dims |-> <<0, 0, 0>>]
    ELSE [err |-> NoError, dims |-> <<nx.val, ny.val, nz.val>>]

\* The try block around the three int() calls, and the nx == 0 test.
DimsOf(nx, ny, nz) ==
    IF ~(nx.ok /\ ny.ok /\ nz.ok)
    THEN [err |-> Err("ValueError", "dims_unparsable"), dims |-> <<0, 0, 0>>]
    ELSE IF nx.val = 0
    THEN [err |-> Err("ValueError", "xpts_zero"), dims |-> <<0, 0, 0>>]
    ELSE [err |-> NoError, dims |-> <<nx.val, ny.val, nz.val>>]

\* nx, ny, nz from XPTS, YPTS, ZPTS.
ResolveDims(p) == DimsOf(DimOf(p, "XPTS", 0), DimOf(p, "YPTS", 1), DimOf(p, "ZPTS", 1))

\* The BSEQ value, upper-cased, to the byte order.
ByteOrderOf(v) ==
    IF v = sBIG THEN [err |-> NoError, order |-> "ieee-be", warns |-> <<>>]
    ELSE IF v = sLIT THEN [err |-> NoError, order |-> "ieee-le", warns |-> <<>>]
    ELSE [err |-> Err("ValueError", "bseq_unknown"), order |-> "ieee-be",
          warns |-> <<>>]

\* ResolveByteOrder with little-endian as the default of an absent BSEQ.
ResolveByteOrderDefaultLittle(p) ==
    IF Has(p, "BSEQ") THEN ByteOrderOf(Upper(p["BSEQ"]))
    ELSE [err |-> NoError, order |-> "ieee-le", warns |-> <<W("bseq_missing", 0)>>]

\* byte_order from BSEQ.
ResolveByteOrder(p) ==
    IF Has(p, "BSEQ") THEN ByteOrderOf(Upper(p["BSEQ"]))
    ELSE [err |-> NoError, order |-> "ieee-be", warns |-> <<W("bseq_missing", 0)>>]

\* fmt_map with the widths of "S" and "I" exchanged.
FmtMapWidthsSwapped(c) ==
    CASE c = <<"C">> -> "i1"
      [] c = <<"S">> -> "i4"
      [] c = <<"I">> -> "i2"
      [] c = <<"F">> -> "f4"
      [] c = <<"D">> -> "f8"
      [] OTHER -> None

\* fmt_map of load.
FmtMap(c) ==
    CASE c = <<"C">> -> "i1"
      [] c = <<"S">> -> "i2"
      [] c = <<"I">> -> "i4"
      [] c = <<"F">> -> "f4"
      [] c = <<"D">> -> "f8"
      [] OTHER -> None

\* The first comma-separated entry of a format key, stripped and upper-cased.
FirstCode(v) == Upper(Strip(SplitComma(v)[1]))

\* The format code to the numpy type code, or the ValueError.
FormatOf(c) ==
    IF FmtMap(c) # None THEN [err |-> NoError, fmt |-> FmtMap(c)]
    ELSE IF c \in {<<"A">>, <<"0">>, <<"N">>}
    THEN [err |-> Err("ValueError", "irfmt_nodata"), fmt |-> None]
    ELSE [err |-> Err("ValueError", "irfmt_unknown"), fmt |-> None]

\* number_format from IRFMT.
ResolveFormat(p) ==
    IF Has(p, "IRFMT") THEN FormatOf(FirstCode(p["IRFMT"]))
    ELSE [err |-> Err("ValueError", "irfmt_missing"), fmt |-> None]

\* np.any(is_complex)
AnyTrue(flags) == \E i \in 1..Len(flags) : flags[i]

\* The IIFMT comparison: only a warning.
ImagFormatWarns(p, flags) ==
    IF Has(p, "IIFMT") /\ AnyTrue(flags) /\ FirstCode(p["IIFMT"]) # FirstCode(p["IRFMT"])
    THEN <<W("iifmt_differs", 0)>>
    ELSE <<>>

\* The first exception of the dimension, byte order and format blocks.
FirstError(d, b, f) ==
    IF d.err # NoError THEN d.err
    ELSE IF b.err # NoError THEN b.err
    ELSE f.err

\* load from "Determine complexity" to the end of the number format block.
Resolve ==
    /\ pc = "resolve"
    /\ \E c \in {ResolveComplex(parameters)},
          d \in {ResolveDims(parameters)},
          b \in {ResolveByteOrder(parameters)},
          f \in {ResolveFormat(parameters)} :
          /\ is_complex' = c.flags
          /\ n_data_values' = c.n
          /\ IF FirstError(d, b, f) # NoError
             THEN /\ pc' = "aborted"
                  /\ error' = FirstError(d, b, f)
                  /\ warnings' = warnings \o c.warns
                        \o (IF d.err = NoError THEN b.warns ELSE <<>>)
                  /\ UNCHANGED <<dimensions, byte_order, number_format>>
             ELSE /\ pc' = "axis"
                  /\ dimensions' = d.dims
                  /\ byte_order' = b.order
                  /\ number_format' = f.fmt
                  /\ warnings' = warnings \o c.warns \o b.warns
                        \o ImagFormatWarns(parameters, c.flags)
                  /\ UNCHANGED error
    /\ UNCHANGED <<inputs, joining, calls, h5vars,
                   parameters, axes, abscissa, raw_size, data, applied,
                   result>>

\* ------------------------------------------------------------ binary files
Min(a, b) == IF a < b THEN a ELSE b
Max(a, b) == IF a > b THEN a ELSE b

\* Bytes per element of a numpy type code.
ItemSize(fmt) ==
    CASE fmt \in {"i1"} -> 1
      [] fmt \in {"i2", "int16"} -> 2
      [] fmt \in {"i4", "f4", "int32", "float32"} -> 4
      [] fmt \in {"f8", "float64"} -> 8

IsIntFormat(fmt) == fmt \in {"i1", "i2", "i4", "int16", "int32"}

\* The number a chunk of bytes spells in two's complement, most significant
\* byte first.
RECURSIVE BigEndian(_)
BigEndian(chunk) ==
    IF Len(chunk) = 1 THEN (IF chunk[1] >= 128 THEN chunk[1] - 256 ELSE chunk[1])
    ELSE BigEndian(SubSeq(chunk, 1, Len(chunk) - 1)) * 256 + chunk[Len(chunk)]

Reverse(s) == [i \in 1..Len(s) |-> s[Len(s) + 1 - i]]

\* The bytes of one element, most significant first.
Ordered(chunk, order) == IF order = "ieee-be" THEN chunk ELSE Reverse(chunk)

\* One element of the file: for the integer types the two's complement number
\* its bytes spell in the given byte order; an element of a floating type is
\* identified by its bit pattern, the bytes from the most significant on.
Decode(chunk, order, fmt) ==
    IF IsIntFormat(fmt) THEN BigEndian(Ordered(chunk, order)) ELSE Ordered(chunk, order)

\* Element number k (from 1) of a file of fmt elements.
Sample(bytes, k, fmt, order) ==
    Decode(SubSeq(bytes, (k - 1) * ItemSize(fmt) + 1, k * ItemSize(fmt)), order, fmt)

\* np.fromfile(file, dtype, count): count whole elements, fewer when the file
\* is shorter, all of them when count is negative.
Available(bytes, fmt) == Len(bytes) \div ItemSize(fmt)

FromFile(bytes, fmt, order, count) ==
    [k \in 1..(IF count < 0 THEN Available(bytes, fmt)
               ELSE Min(count, Available(bytes, fmt))) |->
        Sample(bytes, k, fmt, order)]

\* seq[:n] of Python
SliceTo(s, n) ==
    IF n >= 0 THEN SubSeq(s, 1, Min(n, Len(s)))
    ELSE SubSeq(s, 1, Max(Len(s) + n, 0))

\* ------------------------------------------------------------------- axes
TypKey(i) == <<"XTYP", "YTYP", "ZTYP">>[i]
FmtKey(i) == <<"XFMT", "YFMT", "ZFMT">>[i]
MinKey(i) == <<"XMIN", "YMIN", "ZMIN">>[i]
WidKey(i) == <<"XWID", "YWID", "ZWID">>[i]
\* f".{axis}GF"; upper-casing it changes nothing.
CompanionSuffix(i) == <<".XGF", ".YGF", ".ZGF">>[i]

sIDX == <<"I","D","X">>
sIGD == <<"I","G","D">>
sNTUP == <<"N","T","U","P">>

\* The byte order np.dtype("float64") has: that of the machine.
NativeOrder == "ieee-le"

\* fmt_map of the companion file.
CompanionFmtMap(c) ==
    CASE c = <<"D">> -> "float64"
      [] c = <<"F">> -> "float32"
      [] c = <<"I">> -> "int32"
      [] c = <<"S">> -> "int16"
      [] OTHER -> None

\* The index sequence with its end point included: 0, 1, ..., n.
ArangeInclusive(n) == [j \in 1..(Max(n, 0) + 1) |-> RInt(j - 1)]

\* np.arange(n)
Arange(n) == [j \in 1..Max(n, 0) |-> RInt(j - 1)]

\* np.linspace with endpoint=False: step = (stop - start) / num.
LinspaceNoEndpoint(start, stop, num) ==
    [j \in 1..num |-> RAdd(RMulInt(j - 1, RDivInt(RSub(stop, start), num)), start)]

\* np.linspace(start, stop, num) for num > 1: step = (stop - start) / (num - 1),
\* y = arange(num) * step + start, and the last element is set to stop.
Linspace(start, stop, num) ==
    LET step == RDivInt(RSub(stop, start), num - 1)
    IN  [j \in 1..num |-> IF j = num THEN stop ELSE RAdd(RMulInt(j - 1, step), start)]

\* No axis, and the axis type the loop goes on with.
Unbuilt(type, w) == [type |-> type, defined |-> FALSE, axis |-> <<>>, warns |-> w]

\* CompanionAxis accepting a read of fewer values than the dimension size.
CompanionAxisAcceptShort(got, i, dim_size) ==
    IF Len(got) > 0
    THEN [type |-> sIGD, defined |-> TRUE,
          axis |-> [j \in 1..Len(got) |-> RInt(got[j])], warns |-> <<>>]
    ELSE Unbuilt(sIDX, <<W("companion_short", i)>>)

\* The values read from the companion file against the dimension size.
CompanionAxis(got, i, dim_size) ==
    IF Len(got) = dim_size
    THEN [type |-> sIGD, defined |-> TRUE,
          axis |-> [j \in 1..Len(got) |-> RInt(got[j])], warns |-> <<>>]
    ELSE Unbuilt(sIDX, <<W("companion_short", i)>>)

\* The "IGD" block for axis i with format character c.
IndexedWith(c, files, i, dim_size) ==
    IF CompanionFmtMap(c) = None
    THEN Unbuilt(sIDX, <<W("companion_format", i)>>)
    ELSE IF ~Has(files, CompanionSuffix(i))
    THEN Unbuilt(sIDX, <<W("companion_missing", i)>>)
    ELSE CompanionAxis(FromFile(files[CompanionSuffix(i)], CompanionFmtMap(c),
                                NativeOrder, dim_size), i, dim_size)

\* The "IGD" block for axis i: the axis read from the companion file, or the
\* fall-back to "IDX" with a warning.
IndexedAxis(p, files, i, dim_size) ==
    IndexedWith(Upper(Get(p, FmtKey(i), <<"D">>)), files, i, dim_size)

\* float(parameters[key]): KeyError and ValueError are both caught.
AxisFloat(p, key) ==
    IF Has(p, key) THEN FloatParse(p[key]) ELSE [ok |-> FALSE, val |-> Rat(0, 1)]

\* LinearOf without the width == 0 test.
LinearOfNoZeroTest(mn, wd, i, dim_size) ==
    IF ~(mn.ok /\ wd.ok)
    THEN [axis |-> Arange(dim_size), warns |-> <<W("minwid_unreadable", i)>>]
    ELSE [axis |-> Linspace(mn.val, RAdd(mn.val, wd.val), dim_size),
          warns |-> <<>>]

\* LinearOf with the index fall-back counting from 1.
LinearOfFallbackFromOne(mn, wd, i, dim_size) ==
    IF ~(mn.ok /\ wd.ok)
    THEN [axis |-> [j \in 1..dim_size |-> RInt(j)],
          warns |-> <<W("minwid_unreadable", i)>>]
    ELSE IF RIsZero(wd.val)
    THEN [axis |-> Arange(dim_size), warns |-> <<W("zero_width", i)>>]
    ELSE [axis |-> Linspace(mn.val, RAdd(mn.val, wd.val), dim_size),
          warns |-> <<>>]

\* The try block of the "IDX" case for dim_size > 1.
LinearOf(mn, wd, i, dim_size) ==
    IF ~(mn.ok /\ wd.ok)
    THEN [axis |-> Arange(dim_size), warns |-> <<W("minwid_unreadable", i)>>]
    ELSE IF RIsZero(wd.val)
    THEN [axis |-> Arange(dim_size), warns |-> <<W("zero_width", i)>>]
    ELSE [axis |-> Linspace(mn.val, RAdd(mn.val, wd.val), dim_size),
          warns |-> <<>>]

\* The "IDX" block for axis i.
LinearAxis(p, i, dim_size) ==
    LinearOf(AxisFloat(p, MinKey(i)), AxisFloat(p, WidKey(i)), i, dim_size)

Built(l, w) == [err |-> NoError, defined |-> TRUE, axis |-> l.axis, warns |-> w \o l.warns]

\* AfterIndexed without the "NTUP" branch.
AfterIndexedIgnoresTuple(g, p, i, dim_size) ==
    IF g.type = sIDX THEN Built(LinearAxis(p, i, dim_size), g.warns)
    ELSE [err |-> NoError, defined |-> g.defined, axis |-> g.axis, warns |-> g.warns]

\* "if axis_type == "IDX": ... elif axis_type == "NTUP": ..." after the IGD block
\* left g.
AfterIndexed(g, p, i, dim_size) ==
    IF g.type = sIDX THEN Built(LinearAxis(p, i, dim_size), g.warns)
    ELSE IF g.type = sNTUP
    THEN [err |-> Err("NotImplementedError", "ntup"), defined |-> FALSE,
          axis |-> <<>>, warns |-> g.warns]
    ELSE [err |-> NoError, defined |-> g.defined, axis |-> g.axis, warns |-> g.warns]

\* The axis type read, then the IGD block when it applies.
TypedAxis(t0, p, files, i, dim_size) ==
    AfterIndexed(IF t0 = sIGD THEN IndexedAxis(p, files, i, dim_size)
                 ELSE Unbuilt(t0, <<>>),
                 p, i, dim_size)

\* One pass of the loop over the axis names, for axis i.
BuildAxis(p, files, i, dim_size) ==
    IF dim_size <= 1
    THEN [err |-> NoError, defined |-> FALSE, axis |-> <<>>, warns |-> <<>>]
    ELSE TypedAxis(Get(p, TypKey(i), sIDX), p, files, i, dim_size)

\* load: one iteration of "for i, axis in enumerate(axis_names)".
AxisStep ==
    /\ pc = "axis"
    /\ \E r \in {BuildAxis(parameters, fs, ax, dimensions[ax])} :
          /\ warnings' = warnings \o r.warns
          /\ IF r.err # NoError
             THEN /\ pc' = "aborted"
                  /\ error' = r.err
                  /\ UNCHANGED axes
             ELSE /\ abscissa_list' = [abscissa_list EXCEPT ![ax] = r.axis]
                  /\ axis_defined' = [axis_defined EXCEPT ![ax] = r.defined]
                  /\ IF ax = 3
                     THEN pc' = "matrix" /\ ax' = ax
                     ELSE pc' = "axis" /\ ax' = ax + 1
                  /\ UNCHANGED error
    /\ UNCHANGED <<inputs, joining, calls, h5vars,
                   parameters, resolved, abscissa, raw_size, data,
                   applied, result>>

\* -------------------------------------------------------------- get_matrix
RECURSIVE Prod(_)
Prod(s) == IF s = <<>> THEN 1 ELSE s[1] * Prod(Tail(s))

RECURSIVE Keep(_, _)
\* [d for d in s if d > lo]
Keep(s, lo) ==
    IF s = <<>> THEN s
    ELSE IF s[1] > lo THEN <<s[1]>> \o Keep(Tail(s), lo)
    ELSE Keep(Tail(s), lo)

\* The first half of raw taken as the real parts, the second as the imaginary.
DeinterleaveHalves(raw) ==
    [k \in 1..(Len(raw) \div 2) |-> [re |-> raw[k], im |-> raw[(Len(raw) \div 2) + k]]]

\* raw[::2] + 1j * raw[1::2] for an even number of raw values
Deinterleave(raw) ==
    [k \in 1..(Len(raw) \div 2) |-> [re |-> raw[2 * k - 1], im |-> raw[2 * k]]]

ShapeOr(sh, total) == IF sh = <<>> THEN <<total>> ELSE sh

\* shape_numpy_order built from the dimensions in X, Y, Z order, not reversed.
ShapeNotReversed(dims, total) == ShapeOr(Keep(dims, 1), total)

\* shape_numpy_order: the dimensions reversed, those of size <= 1 dropped,
\* (n_points_total,) when nothing is left.
ShapeNumpyOrder(dims, total) == ShapeOr(Keep(Reverse(dims), 1), total)

RECURSIVE DropOnes(_)
DropOnes(s) ==
    IF s = <<>> THEN s
    ELSE IF s[1] = 1 THEN DropOnes(Tail(s))
    ELSE <<s[1]>> \o DropOnes(Tail(s))

\* ndarray.squeeze(), and reshape(1) when the result is zero-dimensional.
SqueezedShape(sh) == IF DropOnes(sh) = <<>> THEN <<1>> ELSE DropOnes(sh)

NoShape == <<-1>>

\* The unknown dimension i filled in from the product of the others.
ReshapeFill(size, sh, i, known) ==
    IF known = 0 \/ size % known # 0 THEN {NoShape}
    ELSE IF sh[i] = -1 THEN {[sh EXCEPT ![i] = size \div known]}
    ELSE {[sh EXCEPT ![i] = size \div known], NoShape}

ReshapeUnknown(size, sh, i) ==
    ReshapeFill(size, sh, i, Prod([j \in 1..Len(sh) |-> IF j = i THEN 1 ELSE sh[j]]))

ReshapeNeg(size, sh, neg) ==
    IF neg = {} THEN (IF Prod(sh) = size THEN {sh} ELSE {NoShape})
    ELSE IF Cardinality(neg) > 1 THEN {NoShape}
    ELSE ReshapeUnknown(size, sh, CHOOSE j \in neg : TRUE)

\* The shapes ndarray.reshape(sh) can give an array of size elements, NoShape
\* standing for ValueError.  A single negative entry is the unknown dimension;
\* whether an entry below -1 is accepted as one depends on the numpy version.
ReshapeOutcomes(size, sh) == ReshapeNeg(size, sh, {i \in 1..Len(sh) : sh[i] < 0})

\* np.array([])
EmptyArray == [flat |-> <<>>, shape |-> <<0>>, cplx |-> FALSE]

MatrixError(e, w) == [err |-> e, warns |-> w, data |-> EmptyArray, raw_size |-> 0]

\* data.reshape(shape_numpy_order).squeeze(), the 0-dim case, and the return.
Reshaped(flat, kept, w, shape, cplx) ==
    {IF sh = NoShape
     THEN MatrixError(Err("ValueError", "reshape"), w)
     ELSE [err |-> NoError, warns |-> w,
           data |-> [flat |-> flat, shape |-> SqueezedShape(sh), cplx |-> cplx],
           raw_size |-> kept]
     : sh \in ReshapeOutcomes(Len(flat), shape)}

\* "Combine real and imaginary parts if complex"
Combined(raw, w, dims, total, cplx) ==
    IF cplx /\ Len(raw) % 2 # 0
    THEN {MatrixError(Err("ValueError", "odd_count"), w)}
    ELSE Reshaped(IF cplx THEN Deinterleave(raw) ELSE raw, Len(raw), w,
                  ShapeNumpyOrder(dims, total), cplx)

\* "Verify number of elements read"
Verified(raw0, n, dims, total, cplx) ==
    IF Len(raw0) < n THEN {MatrixError(Err("IOError", "short_read"), <<>>)}
    ELSE IF Len(raw0) > n
    THEN Combined(SliceTo(raw0, n), <<W("extra_values", 0)>>, dims, total, cplx)
    ELSE Combined(raw0, <<>>, dims, total, cplx)

\* n_values_to_read
ValuesToRead(total, cplx) == IF cplx THEN total * 2 ELSE total

\* get_matrix from n_points_total on.
MatrixOfTotal(bytes, dims, total, fmt, order, cplx) ==
    IF total = 0
    THEN {[err |-> NoError, warns |-> <<>>, data |-> EmptyArray, raw_size |-> 0]}
    ELSE Verified(FromFile(bytes, fmt, order, ValuesToRead(total, cplx)),
                  ValuesToRead(total, cplx), dims, total, cplx)

\* get_matrix: every outcome the call can have.
GetMatrix(files, suffix, dims, fmt, order, cplx) ==
    IF ~Has(files, suffix)
    THEN {MatrixError(Err("FileNotFoundError", "dta"), <<>>)}
    ELSE MatrixOfTotal(files[suffix], dims, Prod(dims), fmt, order, cplx)

\* "Consolidate abscissa"
NoAbscissa == [kind |-> "none", axes |-> <<>>]

RECURSIVE DefinedAxes(_, _)
DefinedAxes(list, defined) ==
    IF list = <<>> THEN <<>>
    ELSE (IF defined[1] THEN <<list[1]>> ELSE <<>>)
         \o DefinedAxes(Tail(list), Tail(defined))

\* AbscissaOf returning a list also for a single axis.
AbscissaOfAlwaysList(d) ==
    IF Len(d) >= 1 THEN [kind |-> "list", axes |-> d]
    ELSE NoAbscissa

AbscissaOf(d) ==
    IF Len(d) = 1 THEN [kind |-> "single", axes |-> d]
    ELSE IF Len(d) > 1 THEN [kind |-> "list", axes |-> d]
    ELSE NoAbscissa

Consolidate(list, defined) == AbscissaOf(DefinedAxes(list, defined))

\* load from "Consolidate abscissa" to the return of get_matrix.
ReadMatrix ==
    /\ pc = "matrix"
    /\ abscissa' = Consolidate(abscissa_list, axis_defined)
    /\ \E m \in GetMatrix(fs, DtaSuffix, dimensions, number_format, byte_order,
                          is_complex[1]) :
          /\ warnings' = warnings
                \o (IF n_data_values > 1 THEN <<W("multiple_values", 0)>> ELSE <<>>)
                \o m.warns
          /\ IF m.err # NoError
             THEN /\ pc' = "aborted"
                  /\ error' = m.err
                  /\ UNCHANGED <<data, raw_size>>
             ELSE /\ pc' = "scale"
                  /\ data' = m.data
                  /\ raw_size' = m.raw_size
                  /\ UNCHANGED error
    /\ UNCHANGED <<inputs, joining, calls, h5vars,
                   parameters, resolved, axes, applied, result>>

\* ---------------------------------------------------------------- scaling
sCW == <<"C","W">>
sTrue == <<"t","r","u","e">>
sFalse == <<"f","a","l","s","e">>

\* int(parameters.get(key)) and float(parameters.get(key)) inside try/except:
\* a missing key gives None, whose conversion raises the TypeError caught.
ScaleInt(p, key) ==
    IF Has(p, key) THEN IntParse(p[key]) ELSE [ok |-> FALSE, val |-> 0]
ScaleFloat(p, key) ==
    IF Has(p, key) THEN FloatParse(p[key]) ELSE [ok |-> FALSE, val |-> Rat(0, 1)]

\* 10 ** (receiver_gain_db / 20.0) raises OverflowError above the largest
\* double (10 ** 308.2547...) and is 0.0 below the smallest (10 ** -323.6...).
GainOverflows(db) == db.n * 100 > 616509 * db.d
GainIsZero(db) == db.n * 10 < (0 - 64730) * db.d

\* One applied correction: data / by for "n" and "c", data / 10 ** (by / 20)
\* for "G", data / sqrt(by) for "P", data * by for "T".
Op(code, by) == [code |-> code, by |-> by]
Applies(code, by) == [ops |-> <<Op(code, by)>>, warns |-> <<>>]
Skips(w) == [ops |-> <<>>, warns |-> w]

IsCw(p) == Upper(Get(p, "EXPT", sCW)) = sCW
Prescaled(p) == Lower(Get(p, "SctNorm", sFalse)) = sTrue

NWith(n, prescaled) ==
    IF n.ok /\ n.val > 0
    THEN IF prescaled THEN Skips(<<W("n_prescaled", 0)>>) ELSE Applies("n", RInt(n.val))
    ELSE Skips(<<W("n_invalid", 0)>>)

\* if "n" in scaling
ScaleN(p, sc) ==
    IF ~Contains(sc, "n") THEN Skips(<<>>)
    ELSE NWith(ScaleInt(p, "AVGS"), Prescaled(p))

GWith(g) ==
    IF g.ok /\ ~GainIsZero(g.val) THEN Applies("G", g.val)
    ELSE Skips(<<W("G_invalid", 0)>>)

\* if is_cw and "G" in scaling
ScaleG(p, sc) ==
    IF ~(IsCw(p) /\ Contains(sc, "G")) THEN Skips(<<>>)
    ELSE GWith(ScaleFloat(p, "RCAG"))

CWith(t) ==
    IF t.ok /\ RPos(RMulInt(1000, t.val)) THEN Applies("c", RMulInt(1000, t.val))
    ELSE Skips(<<W("c_invalid", 0)>>)

\* if is_cw and "c" in scaling
ScaleC(p, sc) ==
    IF ~(IsCw(p) /\ Contains(sc, "c")) THEN Skips(<<>>)
    ELSE CWith(ScaleFloat(p, "SPTP"))

PWith(w) ==
    IF w.ok /\ RPos(RMulInt(1000, w.val)) THEN Applies("P", RMulInt(1000, w.val))
    ELSE Skips(<<W("P_invalid", 0)>>)

\* if is_cw and "P" in scaling ... elif not is_cw and "P" in scaling
ScaleP(p, sc) ==
    IF ~Contains(sc, "P") THEN Skips(<<>>)
    ELSE IF ~IsCw(p) THEN Skips(<<W("P_not_cw", 0)>>)
    ELSE PWith(ScaleFloat(p, "MWPW"))

TWith(t) ==
    IF t.ok
    THEN [ops |-> <<Op("T", t.val)>>,
          warns |-> IF RIsZero(t.val) THEN <<W("T_zero", 0)>> ELSE <<>>]
    ELSE Skips(<<W("T_invalid", 0)>>)

\* if "T" in scaling
ScaleT(p, sc) ==
    IF ~Contains(sc, "T") THEN Skips(<<>>)
    ELSE TWith(ScaleFloat(p, "STMP"))

\* The five corrections in the order of the code.
Corrections(n, g, c, pw, t) ==
    [err |-> NoError,
     ops |-> n.ops \o g.ops \o c.ops \o pw.ops \o t.ops,
     warns |-> n.warns \o g.warns \o c.warns \o pw.warns \o t.warns]

\* The derived values: only the receiver gain can raise.
DerivedWith(g, p, sc) ==
    IF g.ok /\ GainOverflows(g.val)
    THEN [err |-> Err("OverflowError", "gain"), ops |-> <<>>, warns |-> <<>>]
    ELSE Corrections(ScaleN(p, sc), ScaleG(p, sc), ScaleC(p, sc), ScaleP(p, sc),
                     ScaleT(p, sc))

\* The "Scale Data" block of load.
ScaleData(p, sc, size) ==
    IF sc = <<>> \/ size = 0
    THEN [err |-> NoError, ops |-> <<>>, warns |-> <<>>]
    ELSE DerivedWith(ScaleFloat(p, "RCAG"), p, sc)

Scale ==
    /\ pc = "scale"
    /\ \E r \in {ScaleData(parameters, scaling, Len(data.flat))} :
          /\ warnings' = warnings \o r.warns
          /\ applied' = applied \o r.ops
          /\ IF r.err # NoError
             THEN pc' = "aborted" /\ error' = r.err
             ELSE pc' = "coerce" /\ UNCHANGED error
    /\ UNCHANGED <<inputs, joining, calls, h5vars,
                   parameters, resolved, axes, abscissa, raw_size, data,
                   result>>

\* ---------------------------------------------------- parse_field_params
\* The pattern tried before int().
CoerceFloatFirst(v, i) ==
    IF NumberReMatch(v)
    THEN [t |-> "float", i |-> 0, f |-> LiteralValue(v), s |-> <<>>]
    ELSE IF i.ok THEN [t |-> "int", i |-> i.val, f |-> Rat(0, 1), s |-> <<>>]
    ELSE [t |-> "str", i |-> 0, f |-> Rat(0, 1), s |-> v]

CoerceWith(v, i) ==
    IF i.ok THEN [t |-> "int", i |-> i.val, f |-> Rat(0, 1), s |-> <<>>]
    ELSE IF NumberReMatch(v)
    THEN [t |-> "float", i |-> 0, f |-> LiteralValue(v), s |-> <<>>]
    ELSE [t |-> "str", i |-> 0, f |-> Rat(0, 1), s |-> v]

\* One value: int(value), else float(value) when _NUMBER_RE matches, else value.
CoerceValue(v) == CoerceWith(v, IntParse(v))

ParseFieldParams(p) == [k \in DOMAIN p |-> CoerceValue(p[k])]

\* parse_field_params run on the descriptor before the "Scale Data" block.
CoerceBeforeScaling ==
    /\ pc = "scale"
    /\ result = <<>>
    /\ result' = ParseFieldParams(parameters)
    /\ pc' = "scale"
    /\ UNCHANGED <<inputs, joining, calls, h5vars,
                   parameters, resolved, axes, abscissa, raw_size, data,
                   applied, warnings, error>>

\* load: parse_field_params and the return.
Coerce ==
    /\ pc = "coerce"
    /\ result' = ParseFieldParams(parameters)
    /\ pc' = "returned"
    /\ UNCHANGED <<inputs, joining, calls, h5vars,
                   parameters, resolved, axes, abscissa, raw_size, data,
                   applied, warnings, error>>

Next == ReadDsc \/ Resolve \/ AxisStep \/ ReadMatrix \/ Scale \/ Coerce

\* The same call with read_dsc_file taken from the text of the descriptor.
NextDsc ==
    OpenDsc \/ JoinLine \/ ContinueLine \/ ParseLines \/ Resolve \/ AxisStep
        \/ ReadMatrix \/ Scale \/ Coerce

\* ------------------------------------------------------- warnings.warn
\* warnings.warn under the action "default": a warning is shown unless the
\* registry of data_loader holds its text and line, and is entered there.
RECURSIVE ShownOnce(_, _)
ShownOnce(ws, reg) ==
    IF ws = <<>> THEN <<>>
    ELSE IF ws[1] \in reg THEN ShownOnce(Tail(ws), reg)
    ELSE <<ws[1]>> \o ShownOnce(Tail(ws), reg \cup {ws[1]})

\* The warnings of ws that reach the caller.
Shown(ws, m) == IF m.action = "always" THEN ws ELSE ShownOnce(ws, m.registry)

\* The registry after the warn calls ws; the action "always" enters nothing.
Registered(ws, m) ==
    IF m.action = "always" THEN m.registry
    ELSE m.registry \cup {ws[k] : k \in 1..Len(ws)}

\* What a finished call gave its caller.
Outcome ==
    [data |-> data, applied |-> applied, abscissa |-> abscissa,
     parameters |-> result, error |-> error,
     diagnostics |-> Shown(warnings, warnings_mod)]

\* A second call of load with the same arguments on the same files, in the
\* same process.
CallAgain ==
    /\ pc \in {"returned", "aborted"}
    /\ previous = <<>>
    /\ previous' = <<Outcome>>
    /\ warnings_mod' = [warnings_mod EXCEPT !.registry = Registered(warnings, warnings_mod)]
    /\ pc' = "start"
    /\ parameters' = <<>>
    /\ is_complex' = <<FALSE>>
    /\ n_data_values' = 1
    /\ dimensions' = <<0, 0, 0>>
    /\ byte_order' = "ieee-be"
    /\ number_format' = None
    /\ ax' = 1
    /\ abscissa_list' = <<<<>>, <<>>, <<>>>>
    /\ axis_defined' = <<FALSE, FALSE, FALSE>>
    /\ abscissa' = NoAbscissa
    /\ raw_size' = 0
    /\ data' = EmptyArray
    /\ applied' = <<>>
    /\ warnings' = <<>>
    /\ error' = NoError
    /\ result' = <<>>
    /\ UNCHANGED <<inputs, joining, h5vars>>

NextCalls == Next \/ CallAgain

\* ------------------------------------------------------------- H5Object
\* Largest number of calls made on one H5Object.
MaxH5Calls == 3
H5Keys == {"a", "b"}
H5Values == {1, 2}

\* d without the key k: delattr, del node[k].
Removed(d, ks) == [x \in DOMAIN d \ ks |-> d[x]]
\* d with the entries of the keys ks taken from src.
Written(d, ks, src) ==
    [x \in DOMAIN d \cup ks |-> IF x \in ks THEN src[x] ELSE d[x]]

\* __init__: the datasets of the node, then its attributes, become
\* attributes of the object.
H5Object(node, writable) ==
    [writable |-> writable,
     attrs_keys |-> DOMAIN node.attrs,
     datasets_keys |-> DOMAIN node.items,
     attrs_to_delete |-> {},
     datasets_to_delete |-> {},
     dict |-> [k \in DOMAIN node.items \cup DOMAIN node.attrs |->
                  IF k \in DOMAIN node.attrs THEN node.attrs[k]
                  ELSE node.items[k]]]

H5Call(op, key, value) == [op |-> op, key |-> key, value |-> value]

\* The part of a call every method shares: the call is counted.
Called(c) ==
    /\ Len(h5log.calls) < MaxH5Calls
    /\ h5log' = [h5log EXCEPT !.calls = Append(@, c)]
    /\ UNCHANGED <<inputs, joining, calls, pc, parameters, resolved, axes,
                   abscissa, raw_size, data, applied, warnings, error, result>>

set_attr ==
    \E key \in H5Keys, value \in H5Values :
        /\ Called(H5Call("set_attr", key, value))
        /\ h5obj' = [h5obj EXCEPT !.dict = Put(@, key, value),
                                  !.attrs_keys = @ \cup {key},
                                  !.datasets_keys = @ \ {key}]
        /\ h5raised' = NoError
        /\ UNCHANGED h5node

set_dataset ==
    \E key \in H5Keys, value \in H5Values :
        /\ Called(H5Call("set_dataset", key, value))
        /\ h5obj' = [h5obj EXCEPT !.dict = Put(@, key, value),
                                  !.datasets_keys = @ \cup {key},
                                  !.attrs_keys = @ \ {key}]
        /\ h5raised' = NoError
        /\ UNCHANGED h5node

delete_attr ==
    \E key \in H5Keys :
        /\ Called(H5Call("delete_attr", key, 0))
        /\ h5obj' = [h5obj EXCEPT !.attrs_to_delete = @ \cup {key},
                                  !.attrs_keys = @ \ {key},
                                  !.dict = Removed(@, {key})]
        /\ h5raised' = NoError
        /\ UNCHANGED h5node

delete_dataset ==
    \E key \in H5Keys :
        /\ Called(H5Call("delete_dataset", key, 0))
        /\ h5obj' = [h5obj EXCEPT !.datasets_to_delete = @ \cup {key},
                                  !.datasets_keys = @ \ {key},
                                  !.dict = Removed(@, {key})]
        /\ h5raised' = NoError
        /\ UNCHANGED h5node

\* The node after the two delete loops of sync.
AfterDeletes(node, o) ==
    [attrs |-> Removed(node.attrs, o.attrs_to_delete),
     items |-> Removed(node.items, o.datasets_to_delete)]

\* The keys of ks the object holds no attribute for: getattr raises on them.
Missing(o, ks) == {k \in ks : k \notin DOMAIN o.dict}

\* The outcomes of the two update loops of sync on the node left by the
\* delete loops.  A loop over a set meets its keys in an order nothing
\* fixes: when getattr raises on one of them, any of the others may have
\* been written before.
UpdateOutcomes(node, o) ==
    IF Missing(o, o.attrs_keys) # {}
    THEN {[node |-> [node EXCEPT !.attrs = Written(@, ks, o.dict)],
           err |-> Err("AttributeError", "attribute")] :
             ks \in SUBSET (o.attrs_keys \ Missing(o, o.attrs_keys))}
    ELSE IF Missing(o, o.datasets_keys) # {}
    THEN {[node |-> [attrs |-> Written(node.attrs, o.attrs_keys, o.dict),
                     items |-> Written(node.items, ks, o.dict)],
           err |-> Err("AttributeError", "dataset")] :
             ks \in SUBSET (o.datasets_keys \ Missing(o, o.datasets_keys))}
    ELSE {[node |-> [attrs |-> Written(node.attrs, o.attrs_keys, o.dict),
                     items |-> Written(node.items, o.datasets_keys, o.dict)],
           err |-> NoError]}

sync ==
    /\ Called(H5Call("sync", "", 0))
    /\ IF ~h5obj.writable
       THEN /\ h5raised' = Err("RuntimeError", "not_writable")
            /\ UNCHANGED <<h5obj, h5node>>
       ELSE /\ h5obj' = [h5obj EXCEPT !.attrs_to_delete = {},
                                      !.datasets_to_delete = {}]
            /\ \E r \in UpdateOutcomes(AfterDeletes(h5node, h5obj), h5obj) :
                  h5node' = r.node /\ h5raised' = r.err

NextH5 == set_attr \/ set_dataset \/ delete_attr \/ delete_dataset \/ sync

\* No H5Object is in use.
NoH5 ==
    /\ h5obj = H5Object([attrs |-> <<>>, items |-> <<>>], FALSE)
    /\ h5node = [attrs |-> <<>>, items |-> <<>>]
    /\ h5log = [opened |-> h5node, calls |-> <<>>]
    /\ h5raised = NoError

\* The call is the first of its process: nothing is in the registry.
FirstCall ==
    /\ warnings_mod = [action |-> "default", registry |-> {}]
    /\ previous = <<>>

\* ------------------------------------------------------------------ inputs
\* Marks a key the descriptor does not hold, and a file that does not exist.
ABSENT == <<"<absent>">>
NoFile == <<-1>>

\* The descriptor with the entries of rec that are not ABSENT.
DictOf(rec) == [k \in {x \in DOMAIN rec : rec[x] # ABSENT} |-> rec[k]]

RECURSIVE NatToStr(_)
NatToStr(n) ==
    IF n < 10 THEN <<Digits[n + 1]>>
    ELSE NatToStr(n \div 10) \o <<Digits[(n % 10) + 1]>>

IntToStr(n) == IF n < 0 THEN <<"-">> \o NatToStr(0 - n) ELSE NatToStr(n)

\* A data file of len bytes, byte k holding k.
DataBytes(len) == [k \in 1..len |-> k]

\* The files next to the base name: the descriptor and the data file under
\* upper- or lower-case suffixes, the companion file of the X axis.
MkFs(up, has_dsc, dsc, dta, xgf) ==
    LET dn == IF up THEN ".DSC" ELSE ".dsc"
        tn == IF up THEN ".DTA" ELSE ".dta"
        names == (IF has_dsc THEN {dn} ELSE {})
                 \cup (IF dta # NoFile THEN {tn} ELSE {})
                 \cup (IF xgf # NoFile THEN {".XGF"} ELSE {})
    IN  [k \in names |-> IF k = dn THEN dsc ELSE IF k = tn THEN dta ELSE xgf]

extUpper == <<".","D","T","A">>
extLower == <<".","d","t","a">>
sREAL == <<"R","E","A","L">>

\* The state of a load call that has not started.
InitLoad ==
    /\ pc = "start"
    /\ i_lines = 0
    /\ line = <<>>
    /\ processed_lines = <<>>
    /\ starts = <<>>
    /\ parameters = <<>>
    /\ is_complex = <<FALSE>>
    /\ n_data_values = 1
    /\ dimensions = <<0, 0, 0>>
    /\ byte_order = "ieee-be"
    /\ number_format = None
    /\ ax = 1
    /\ abscissa_list = <<<<>>, <<>>, <<>>>>
    /\ axis_defined = <<FALSE, FALSE, FALSE>>
    /\ abscissa = NoAbscissa
    /\ raw_size = 0
    /\ data = EmptyArray
    /\ applied = <<>>
    /\ warnings = <<>>
    /\ error = NoError
    /\ result = <<>>

InitCall == InitLoad /\ FirstCall /\ NoH5

\* Calls that differ in the dimensions, the complex flag, the element size,
\* the length of the data file, the scaling spec and the case of the extension.
Init ==
    /\ InitCall
    /\ \E xp \in {ABSENT, <<"x">>, <<"+","0","0">>} \cup {IntToStr(n) : n \in -2..MaxPts},
          yp \in {ABSENT} \cup {IntToStr(n) : n \in -1..MaxPts},
          zp \in {ABSENT, <<"-","1">>, <<"2">>},
          ik \in {ABSENT, sREAL, sCPLX},
          fm \in {<<"C">>, <<"S">>},
          dta \in {NoFile} \cup {DataBytes(len) : len \in 0..MaxFileBytes},
          sc \in {<<>>, <<"n">>},
          ext \in {extUpper, extLower} :
          /\ fs = MkFs(IsUpper(ext), TRUE,
                       DictOf([XPTS |-> xp, YPTS |-> yp, ZPTS |-> zp, IKKF |-> ik,
                               IRFMT |-> fm, BSEQ |-> sLIT, AVGS |-> <<"2">>]),
                       dta, NoFile)
          /\ file_extension = ext
          /\ scaling = sc

Spec == Init /\ [][Next]_vars

\* Calls that differ in the complex flags, the byte order, the format codes
\* and the case of the extension and of the file names.
InitFormat ==
    /\ InitCall
    /\ \E xp \in {ABSENT, <<"2">>},
          ik \in {ABSENT, sREAL, sCPLX, <<"R","E","A","L",",","C","P","L","X">>,
                  <<"c","p","l","x">>},
          bs \in {ABSENT, sBIG, sLIT, <<"l","i","t">>, <<"M","I","D">>, <<>>},
          fm \in {ABSENT, <<"C">>, <<"S">>, <<"I">>, <<"F">>, <<"D">>, <<"s">>,
                  <<"A">>, <<"0">>, <<"N">>, <<"Q">>, <<"S",",","C">>,
                  <<" ","I",",","D">>, <<>>},
          im \in {ABSENT, <<"S">>, <<"C">>},
          dta \in {NoFile, DataBytes(3), DataBytes(MaxFileBytes)},
          ext \in {extUpper, extLower},
          up \in BOOLEAN :
          /\ fs = MkFs(up, TRUE,
                       DictOf([XPTS |-> xp, IKKF |-> ik, BSEQ |-> bs, IRFMT |-> fm,
                               IIFMT |-> im]),
                       dta, NoFile)
          /\ file_extension = ext
          /\ scaling = <<>>

SpecFormat == InitFormat /\ [][Next]_vars

\* Largest point count offered for an axis.
MaxAxisPts == 4

\* Calls that differ in the size, the type, the minimum and the width of the
\* X axis, in its companion file and in the width and the type of the Y axis.
InitAxis ==
    /\ InitCall
    /\ \E xp \in {IntToStr(n) : n \in 1..MaxAxisPts},
          yp \in {ABSENT, <<"2">>},
          xt \in {ABSENT, sIDX, sIGD, sNTUP, <<"i","d","x">>},
          xm \in {ABSENT, <<"0">>, <<"1",".","5">>, <<"-","2">>, <<"x">>},
          xw \in {ABSENT, <<"3","0">>, <<"0">>, <<"0",".","0">>, <<"-","1","e","1">>,
                  <<"x">>},
          yw \in {ABSENT, <<"0">>, <<"3">>},
          yt \in {ABSENT, sNTUP},
          xf \in {ABSENT, <<"S">>, <<"Q">>},
          xgf \in {NoFile, DataBytes(4), DataBytes(8)},
          dta \in {NoFile, DataBytes(MaxFileBytes)} :
          /\ xt # sIGD => (xf = ABSENT /\ xgf = NoFile)
          /\ fs = MkFs(TRUE, TRUE,
                       DictOf([XPTS |-> xp, YPTS |-> yp, IKKF |-> sREAL,
                               IRFMT |-> <<"C">>, BSEQ |-> sBIG, XTYP |-> xt,
                               XMIN |-> xm, XWID |-> xw, YMIN |-> <<"1">>,
                               YWID |-> yw, YTYP |-> yt, XFMT |-> xf]),
                       dta, xgf)
          /\ file_extension = extUpper
          /\ scaling = <<>>

SpecAxis == InitAxis /\ [][Next]_vars

\* Largest point count offered per dimension when several axes are built.
MaxAbscissaPts == 2

\* Calls that differ in which of the three dimensions have more than one
\* point and in which of the three axes have a type that builds an axis
\* ("idx" is a type the loop knows nothing of).
InitAbscissa ==
    /\ InitCall
    /\ \E xp \in {IntToStr(n) : n \in 1..MaxAbscissaPts},
          yp \in {IntToStr(n) : n \in 1..MaxAbscissaPts},
          zp \in {IntToStr(n) : n \in 1..MaxAbscissaPts},
          xt \in {ABSENT, <<"i","d","x">>},
          yt \in {ABSENT, <<"i","d","x">>},
          zt \in {sIDX, <<"i","d","x">>},
          dta \in {NoFile, DataBytes(MaxFileBytes)} :
          /\ fs = MkFs(TRUE, TRUE,
                       DictOf([XPTS |-> xp, YPTS |-> yp, ZPTS |-> zp,
                               IKKF |-> sREAL, IRFMT |-> <<"C">>, BSEQ |-> sBIG,
                               XTYP |-> xt, YTYP |-> yt, ZTYP |-> zt,
                               XMIN |-> <<"0">>, XWID |-> <<"3","0">>,
                               YMIN |-> <<"1">>, YWID |-> <<"3">>]),
                       dta, NoFile)
          /\ file_extension = extUpper
          /\ scaling = <<>>

SpecAbscissa == InitAbscissa /\ [][Next]_vars

\* The scaling specs offered: every single code, codes repeated, in either
\* order and mixed with blanks, the empty spec and a blank one.
ScalingTexts ==
    {<<>>, <<" ">>, <<"n">>, <<"n","n">>, <<" ","n">>, <<"G">>, <<"c">>, <<"P">>,
     <<"P","P">>, <<"T">>, <<"n","G">>, <<"G","n">>, <<"c","P","T">>,
     <<"T","P","c">>, <<"T"," ","c"," ","P">>}

\* The texts offered for a number a correction reads: missing, unparsable,
\* zero, negative and valid.
NumberTexts(valid) == {ABSENT, <<"x">>, <<"0">>, <<"-","3">>, valid}

\* Calls that differ in the scaling spec and in the descriptor values the
\* requested corrections read; the data has two points or none.
InitScale ==
    /\ InitCall
    /\ \E sc \in ScalingTexts, yp \in {ABSENT, <<"0">>} :
       \E av \in (IF Contains(sc, "n") THEN NumberTexts(<<"2">>) ELSE {ABSENT}),
          sn \in (IF Contains(sc, "n") THEN {ABSENT, <<"T","r","u","e">>}
                  ELSE {ABSENT}),
          rg \in (IF Contains(sc, "G")
                  THEN NumberTexts(<<"6","0">>)
                           \cup {<<"7","0","0","0">>, <<"-","7","0","0","0">>}
                  ELSE {ABSENT, <<"7","0","0","0">>}),
          sp \in (IF Contains(sc, "c") THEN NumberTexts(<<"0",".","0","2">>)
                  ELSE {ABSENT}),
          mw \in (IF Contains(sc, "P") THEN NumberTexts(<<"0",".","0","0","2">>)
                  ELSE {ABSENT}),
          st \in (IF Contains(sc, "T") THEN NumberTexts(<<"2","9","5">>)
                  ELSE {ABSENT}),
          ex \in (IF Contains(sc, "G") \/ Contains(sc, "c") \/ Contains(sc, "P")
                  THEN {ABSENT, <<"c","w">>, <<"P","L","S">>} ELSE {ABSENT}) :
          /\ fs = MkFs(TRUE, TRUE,
                       DictOf([XPTS |-> <<"2">>, YPTS |-> yp, IKKF |-> sREAL,
                               IRFMT |-> <<"C">>, BSEQ |-> sBIG, AVGS |-> av,
                               SctNorm |-> sn, RCAG |-> rg, SPTP |-> sp,
                               MWPW |-> mw, STMP |-> st, EXPT |-> ex]),
                       DataBytes(MaxFileBytes), NoFile)
          /\ file_extension = extUpper
          /\ scaling = sc

SpecScale == InitScale /\ [][Next]_vars

\* Two equal calls in one process, which differ from one process to the next
\* in the descriptor, the data file, the scaling spec and the action the
\* warnings filter has for a UserWarning.
InitCalls ==
    /\ InitLoad
    /\ NoH5
    /\ previous = <<>>
    /\ \E xp \in {ABSENT, <<"1">>, <<"2">>},
          yp \in {ABSENT, <<"2">>},
          ik \in {ABSENT, sREAL, sCPLX},
          bs \in {ABSENT, sBIG, <<"M","I","D">>},
          dta \in {NoFile, DataBytes(1), DataBytes(MaxFileBytes)},
          sc \in {<<>>, <<"n">>, <<"P">>},
          act \in {"default", "always"} :
          /\ fs = MkFs(TRUE, TRUE,
                       DictOf([XPTS |-> xp, YPTS |-> yp, IKKF |-> ik, BSEQ |-> bs,
                               IRFMT |-> <<"C">>, YTYP |-> <<"i","d","x">>]),
                       dta, NoFile)
          /\ file_extension = extUpper
          /\ scaling = sc
          /\ warnings_mod = [action |-> act, registry |-> {}]

SpecCalls == InitCalls /\ [][NextCalls]_vars

\* The nodes an H5Object is built from: attributes and datasets of value 1
\* under any of the keys.
OpenedNodes ==
    {[attrs |-> [k \in ak |-> 1], items |-> [k \in dk |-> 1]] :
        ak \in SUBSET H5Keys, dk \in SUBSET H5Keys}

\* An H5Object right after its construction, writable or not; no load call
\* is under way.
InitH5 ==
    /\ InitLoad
    /\ FirstCall
    /\ fs = <<>>
    /\ file_extension = extUpper
    /\ scaling = <<>>
    /\ h5node \in OpenedNodes
    /\ h5obj \in {H5Object(h5node, w) : w \in BOOLEAN}
    /\ h5log = [opened |-> h5node, calls |-> <<>>]
    /\ h5raised = NoError

SpecH5 == InitH5 /\ [][NextH5]_vars

\* Largest number of lines that follow the first lines of a descriptor.
MaxDscLines == 3

\* The lines every descriptor text here begins with: XPTS continued on a
\* second line, a quoted value, a tab between key and value.
FirstLines ==
    << <<"X","P","T","S"," ","\\","\n">>,
       <<" ","2","\n">>,
       <<"I","R","F","M","T","\t","'","C","'","\n">>,
       <<"B","S","E","Q"," ","B","I","G"," ","\n">> >>

\* The lines that may follow: entries, an entry that ends in one marker and
\* one that ends in two, the history marker in upper and in lower case, a
\* comment, a line of one marker, an escaped newline in a value.
LineTexts ==
    { <<"T","I","T","L"," ","a","\n">>,
      <<"t","i","t","l"," ","\\","\n">>,
      <<"#","M","H","L","\n">>,
      <<"#","m","h","l"," ","x","\n">>,
      <<"*"," ","c","\n">>,
      <<"X","P","T","S"," ","0","\n">>,
      <<"X","N","A","M"," ","F","\\","\\","\n">>,
      <<"\\","\n">>,
      <<"T","I","T","L"," ","a","\\","n","b","\n">> }

RECURSIVE LineSeqs(_)
\* The sequences of at most n lines of LineTexts.
LineSeqs(n) ==
    IF n = 0 THEN {<<>>}
    ELSE LineSeqs(n - 1)
         \cup {Append(q, l) : q \in {x \in LineSeqs(n - 1) : Len(x) = n - 1},
                              l \in LineTexts}

\* Calls that differ in the text of the descriptor.
InitDsc ==
    /\ InitCall
    /\ \E tail \in LineSeqs(MaxDscLines), has \in BOOLEAN :
          /\ fs = MkFs(TRUE, has, FirstLines \o tail, DataBytes(MaxFileBytes), NoFile)
          /\ file_extension = extUpper
          /\ scaling = <<"n">>

SpecDsc == InitDsc /\ [][NextDsc]_vars

\* Largest number of lines that follow the first lines where the joining
\* pass is followed to its end.
MaxJoinLines == 3

\* The lines among LineTexts that matter to the joining pass.
JoinTexts ==
    { <<"T","I","T","L"," ","a","\n">>,
      <<"t","i","t","l"," ","\\","\n">>,
      <<"X","N","A","M"," ","F","\\","\\","\n">>,
      <<"\\","\n">> }

RECURSIVE JoinSeqs(_)
\* The sequences of at most n lines of JoinTexts.
JoinSeqs(n) ==
    IF n = 0 THEN {<<>>}
    ELSE JoinSeqs(n - 1)
         \cup {Append(q, l) : q \in {x \in JoinSeqs(n - 1) : Len(x) = n - 1},
                              l \in JoinTexts}

\* Calls that differ in the lines the descriptor text ends in.
InitJoin ==
    /\ InitCall
    /\ \E tail \in JoinSeqs(MaxJoinLines) :
          /\ fs = MkFs(TRUE, TRUE, FirstLines \o tail, DataBytes(MaxFileBytes), NoFile)
          /\ file_extension = extUpper
          /\ scaling = <<"n">>

\* read_dsc_file is straight-line, single-threaded code: while it can take
\* a step of its joining pass it takes it.
SpecJoin ==
    InitJoin /\ [][NextDsc]_vars /\ WF_vars(OpenDsc \/ JoinLine \/ ContinueLine)

\* The texts offered as the value of one descriptor entry.
ValueTexts ==
    {<<"1","2">>, <<"-","3">>, <<"+","7">>, <<"1","_","0">>, <<"1","_","_","0">>,
     <<"_","1">>, <<" ","1","2"," ">>, <<"0","0","7">>, <<"1",".","5">>,
     <<".","5">>, <<"5",".">>, <<"1","e","3">>, <<"1","E","-","2">>,
     <<"-",".","5","e","+","1">>, <<"1",".","5","\n">>, <<" ","1",".","5">>,
     <<"e","5">>, <<"1",".","5",".","2">>, <<"1","e">>, <<"+">>, <<"1",",","5">>,
     <<"0","x","1","0">>, <<"a","b","c">>, <<>>}

\* Calls that differ in the value of TITL, in the axis-name and unit entries
\* that bring alias keys, in the point count and in the data file.
InitCoerce ==
    /\ InitCall
    /\ \E v \in ValueTexts,
          xn \in {ABSENT, <<>>, <<"F","i","e","l","d">>},
          xu \in {ABSENT, <<"G">>},
          yn \in {ABSENT, <<"T","i","m","e">>},
          yu \in {ABSENT, <<"s">>},
          xp \in {<<"1">>, <<"2">>, <<"2",".","0">>},
          dta \in {NoFile, DataBytes(1), DataBytes(MaxFileBytes)} :
          /\ fs = MkFs(TRUE, TRUE,
                       DictOf([XPTS |-> xp, IKKF |-> sREAL, BSEQ |-> sBIG,
                               IRFMT |-> <<"C">>, TITL |-> v,
                               XNAM |-> xn, XUNI |-> xu,
                               YNAM |-> yn, YUNI |-> yu]),
                       dta, NoFile)
          /\ file_extension = extUpper
          /\ scaling = <<"n">>

SpecCoerce == InitCoerce /\ [][Next]_vars

\* ------------------------------------------------------------------ claims
\* Where the call is.
DscParsed == pc # "start" /\ error.msg \notin {"dsc", "unit"}
Resolved == pc \in {"axis", "matrix", "scale", "coerce", "returned"}
               \/ (pc = "aborted" /\ error.msg \in {"ntup", "dta", "short_read",
                                                     "odd_count", "reshape", "gain"})
MatrixRead == pc \in {"scale", "coerce", "returned"}
               \/ (pc = "aborted" /\ error.msg = "gain")
ResolveDone == DscParsed /\ pc # "resolve"
NothingReturned == result = <<>> /\ pc # "returned"

\* The data file load reads, <<>> when it does not exist.
DtaBytes == IF Has(fs, DtaSuffix) THEN fs[DtaSuffix] ELSE <<>>

XptsMissingOrZero ==
    \/ ~Has(parameters, "XPTS")
    \/ (IntParse(parameters["XPTS"]).ok /\ IntParse(parameters["XPTS"]).val = 0)

\* C1: once the descriptor is parsed and the dimensions are looked at, a
\* missing XPTS or an XPTS that parses to 0 has ended the call with a
\* ValueError and nothing is returned, whatever the other keys, the data
\* file and the scaling spec are.
C1_XptsMissingOrZeroAborts ==
    (ResolveDone /\ XptsMissingOrZero)
        => (pc = "aborted" /\ error.exc = "ValueError" /\ NothingReturned)

\* A zero XPTS aborted a call whose data file exists and whose other
\* dimensions are fine.
C1_Witness ==
    /\ pc = "aborted"
    /\ error = Err("ValueError", "xpts_zero")
    /\ Has(parameters, "XPTS")
    /\ parameters["XPTS"] = <<"+","0","0">>
    /\ Has(fs, DtaSuffix)
    /\ scaling # <<>>

\* C2: a returned call has nx > 0, ny >= 0 and nz >= 0.
C2_ReturnedDimsNonNegative ==
    pc = "returned"
        => (dimensions[1] > 0 /\ dimensions[2] >= 0 /\ dimensions[3] >= 0)

\* The offset of a multi-index in an array of the given shape stored with the
\* last index varying fastest.
RECURSIVE COffset(_, _)
COffset(shape, idx) ==
    IF shape = <<>> THEN 0
    ELSE idx[1] * Prod(Tail(shape)) + COffset(Tail(shape), Tail(idx))

\* The entries of idx at the positions where sizes is not 1, <<0>> when none.
RECURSIVE IdxNotOne(_, _)
IdxNotOne(sizes, idx) ==
    IF sizes = <<>> THEN <<>>
    ELSE (IF sizes[1] # 1 THEN <<idx[1]>> ELSE <<>>) \o IdxNotOne(Tail(sizes), Tail(idx))

SqueezedIdx(sizes, idx) == IF IdxNotOne(sizes, idx) = <<>> THEN <<0>> ELSE IdxNotOne(sizes, idx)

NotOne(d) == d # 1
ExpectedShape(nx, ny, nz) ==
    IF SelectSeq(<<nz, ny, nx>>, NotOne) = <<>> THEN <<1>>
    ELSE SelectSeq(<<nz, ny, nx>>, NotOne)

RealLayout(nx, ny, nz) ==
    /\ Len(data.flat) = nx * ny * nz
    /\ data.shape = ExpectedShape(nx, ny, nz)
    /\ ~data.cplx
    /\ \A z \in 0..(nz - 1), y \in 0..(ny - 1), x \in 0..(nx - 1) :
          data.flat[COffset(data.shape, SqueezedIdx(<<nz, ny, nx>>, <<z, y, x>>)) + 1]
              = Sample(DtaBytes, (z * ny + y) * nx + x + 1, number_format, byte_order)

PositiveDims == dimensions[1] >= 1 /\ dimensions[2] >= 1 /\ dimensions[3] >= 1

\* C3: for real data with nx, ny, nz >= 1 and a data file of at least
\* nx*ny*nz values get_matrix succeeds; the data has nx*ny*nz elements, the
\* shape (nz, ny, nx) without its dimensions of size 1 (one element, never
\* zero-dimensional, when all are 1) and element (z, y, x) is sample
\* (z*ny + y)*nx + x of the file; without a scaling spec it is returned as is.
C3_RealShapeAndOrder ==
    (Resolved /\ ~is_complex[1] /\ PositiveDims)
        => /\ MatrixRead => RealLayout(dimensions[1], dimensions[2], dimensions[3])
           /\ (pc = "returned" /\ scaling = <<>>) => applied = <<>>
           /\ (pc = "aborted" /\ Has(fs, DtaSuffix)
               /\ Available(DtaBytes, number_format) >= Prod(dimensions))
                  => error.msg \notin {"dta", "short_read", "odd_count", "reshape"}

\* A 2 x 2 x 2 real array was returned, its last element the eighth sample.
C3_Witness ==
    /\ pc = "returned"
    /\ dimensions = <<2, 2, 2>>
    /\ ~is_complex[1]
    /\ data.shape = <<2, 2, 2>>
    /\ data.flat[COffset(data.shape, <<1, 1, 1>>) + 1] = 8
    /\ data.flat[COffset(data.shape, <<1, 0, 1>>) + 1] = 6

\* C4: element k of complex data has real part raw[2k] and imaginary part
\* raw[2k+1] (counting from 0), for every k below nx*ny*nz.
C4_ComplexDeinterleave ==
    (MatrixRead /\ is_complex[1])
        => /\ Len(data.flat) > 0 => data.cplx
           /\ \A k \in 1..Prod(dimensions) :
                 /\ k <= Len(data.flat)
                 /\ data.flat[k].re = Sample(DtaBytes, 2 * k - 1, number_format, byte_order)
                 /\ data.flat[k].im = Sample(DtaBytes, 2 * k, number_format, byte_order)

\* Dims [2,1,1] with raw values 1, 2, 3, 4 were returned as [1+2i, 3+4i].
C4_Witness ==
    /\ pc = "returned"
    /\ is_complex[1]
    /\ dimensions = <<2, 1, 1>>
    /\ IsIntFormat(number_format)
    /\ data.cplx
    /\ Len(data.flat) = 2
    /\ data.flat[1] = [re |-> 1, im |-> 2]
    /\ data.flat[2] = [re |-> 3, im |-> 4]
    /\ data.shape = <<2>>

\* The number of raw values nx*ny*nz points take.
ExpectedCount == (IF is_complex[1] THEN 2 ELSE 1) * Prod(dimensions)

\* The first n elements of the data file.
FirstSamples(n) == [k \in 1..n |-> Sample(DtaBytes, k, number_format, byte_order)]

MatrixAttempted ==
    MatrixRead \/ (pc = "aborted" /\ error.msg \in {"dta", "short_read", "odd_count", "reshape"})

\* C5: data is returned only when exactly nx*ny*nz raw values (twice as many
\* when complex) were taken from the data file, the first ones of the file;
\* a file holding fewer values ends the call with an IOError.
C5_ExactCountOrIOError ==
    /\ MatrixRead
          => /\ raw_size = ExpectedCount
             /\ data.flat = (IF data.cplx THEN Deinterleave(FirstSamples(ExpectedCount))
                             ELSE FirstSamples(ExpectedCount))
    /\ (MatrixAttempted /\ Has(fs, DtaSuffix)
        /\ Available(DtaBytes, number_format) < ExpectedCount)
          => (pc = "aborted" /\ error.exc = "IOError" /\ NothingReturned)

\* C5 for the calls whose point count is not negative.
C5_HoldsForNonNegativeCount ==
    Prod(dimensions) >= 0 => C5_ExactCountOrIOError

Warned(tag, i) == \E k \in 1..Len(warnings) : warnings[k] = W(tag, i)

BseqUnknown ==
    Has(parameters, "BSEQ") /\ Upper(parameters["BSEQ"]) \notin {sBIG, sLIT}

\* Every element of the returned data is the file's element decoded in order.
DecodedAs(order) ==
    \A k \in 1..Len(data.flat) :
        IF data.cplx
        THEN /\ data.flat[k].re = Sample(DtaBytes, 2 * k - 1, number_format, order)
             /\ data.flat[k].im = Sample(DtaBytes, 2 * k, number_format, order)
        ELSE data.flat[k] = Sample(DtaBytes, k, number_format, order)

\* C6: a BSEQ value that is neither BIG nor LIT ends the call with a
\* ValueError; an absent BSEQ raises nothing: big-endian is assumed with a
\* warning and the data is decoded most significant byte first.
C6_ByteOrder ==
    /\ (ResolveDone /\ BseqUnknown)
          => (pc = "aborted" /\ error.exc = "ValueError" /\ NothingReturned)
    /\ (ResolveDone /\ ~Has(parameters, "BSEQ"))
          => /\ error.msg # "bseq_unknown"
             /\ error.msg \notin {"dims_unparsable", "xpts_zero"}
                   => Warned("bseq_missing", 0)
             /\ Resolved => byte_order = "ieee-be"
             /\ MatrixRead => DecodedAs("ieee-be")

\* A call without BSEQ returned two 16-bit values read big-endian.
C6_Witness ==
    /\ pc = "returned"
    /\ ~Has(parameters, "BSEQ")
    /\ number_format = "i2"
    /\ ~data.cplx
    /\ Len(data.flat) = 2
    /\ data.flat[1] = 258
    /\ data.flat[2] = 772
    /\ Warned("bseq_missing", 0)

\* The first comma-separated entry of a text, stripped and upper-cased.
FirstEntry(v) ==
    Upper(Strip(SubSeq(v, 1, IF IndexOf(v, {","}) = 0 THEN Len(v)
                             ELSE IndexOf(v, {","}) - 1)))

\* The fixed table: C int8, S int16, I int32, F float32, D float64.
FormatTable ==
    {<< <<"C">>, "i1" >>, << <<"S">>, "i2" >>, << <<"I">>, "i4" >>,
     << <<"F">>, "f4" >>, << <<"D">>, "f8" >>}

IrfmtInTable ==
    /\ Has(parameters, "IRFMT")
    /\ \E e \in FormatTable : e[1] = FirstEntry(parameters["IRFMT"])

\* C7: the element type is the table's type of the first entry of IRFMT; an
\* absent IRFMT or a first entry outside the table (A, 0 and N included) ends
\* the call with a ValueError before the data file is read; on complex data
\* an IIFMT that differs only warns and the IRFMT type is used.
C7_ElementFormat ==
    /\ (ResolveDone /\ ~IrfmtInTable)
          => (pc = "aborted" /\ error.exc = "ValueError" /\ ~MatrixAttempted
              /\ NothingReturned)
    /\ Resolved
          => (IrfmtInTable
              /\ <<FirstEntry(parameters["IRFMT"]), number_format>> \in FormatTable)
    /\ (ResolveDone /\ IrfmtInTable /\ AnyTrue(is_complex)
        /\ Has(parameters, "IIFMT")
        /\ FirstEntry(parameters["IIFMT"]) # FirstEntry(parameters["IRFMT"])
        /\ error.msg \notin {"dims_unparsable", "xpts_zero", "bseq_unknown"})
          => (Resolved /\ Warned("iifmt_differs", 0))

\* Complex data with IRFMT "S,C" and IIFMT "C" was returned as 16-bit values
\* after the warning.
C7_Witness ==
    /\ pc = "returned"
    /\ Has(parameters, "IRFMT") /\ parameters["IRFMT"] = <<"S",",","C">>
    /\ Has(parameters, "IIFMT")
    /\ parameters["IIFMT"] = <<"C">>
    /\ number_format = "i2"
    /\ data.cplx
    /\ Warned("iifmt_differs", 0)

\* C8: when any IKKF channel is complex, 2*nx*ny*nz raw values are read and
\* the returned data is complex.
C8_AnyComplexChannelReadsDouble ==
    (MatrixRead /\ AnyTrue(is_complex) /\ Prod(dimensions) > 0)
        => (data.cplx /\ raw_size = 2 * Prod(dimensions))

\* C8 holds when the first channel is the complex one.
C8_HoldsForFirstChannel ==
    (MatrixRead /\ is_complex[1] /\ Prod(dimensions) > 0)
        => (data.cplx /\ raw_size = 2 * Prod(dimensions))

\* The loop has dealt with axis i.
AxisDone(i) ==
    \/ pc = "axis" /\ ax > i
    \/ pc \in {"matrix", "scale", "coerce", "returned"}
    \/ pc = "aborted" /\ error.msg = "ntup" /\ ax > i
    \/ pc = "aborted" /\ error.msg \in {"dta", "short_read", "odd_count", "reshape", "gain"}

\* Axis i is resolved by the Linear rule: its type is absent or "IDX", or it
\* is "IGD" and there is no companion file.
LinearRule(i) ==
    \/ ~Has(parameters, TypKey(i))
    \/ parameters[TypKey(i)] = sIDX
    \/ parameters[TypKey(i)] = sIGD /\ ~Has(fs, CompanionSuffix(i))

MinOf(i) == AxisFloat(parameters, MinKey(i))
WidOf(i) == AxisFloat(parameters, WidKey(i))

\* min + j * width / (n - 1)
Spaced(mn, wd, j, n) == Rat(mn.n * wd.d * (n - 1) + j * wd.n * mn.d, mn.d * wd.d * (n - 1))

\* C9: a Linear axis of N > 1 points with a parsable minimum and a parsable
\* non-zero width has N values, value j being min + j*width/(N-1): the first
\* is min and the last min + width.
C9_LinearAxisSpacing ==
    \A i \in 1..3 :
        (AxisDone(i) /\ dimensions[i] > 1 /\ LinearRule(i)
         /\ MinOf(i).ok /\ WidOf(i).ok /\ ~RIsZero(WidOf(i).val))
            => /\ axis_defined[i]
               /\ Len(abscissa_list[i]) = dimensions[i]
               /\ REq(abscissa_list[i][1], MinOf(i).val)
               /\ REq(abscissa_list[i][dimensions[i]], RAdd(MinOf(i).val, WidOf(i).val))
               /\ \A j \in 0..(dimensions[i] - 1) :
                     REq(abscissa_list[i][j + 1],
                         Spaced(MinOf(i).val, WidOf(i).val, j, dimensions[i]))

\* N = 4, min 0 and width 30 were returned as the abscissa [0, 10, 20, 30].
C9_Witness ==
    /\ pc = "returned"
    /\ dimensions = <<4, 1, 1>>
    /\ ~Has(parameters, "XTYP")
    /\ Has(parameters, "XMIN") /\ parameters["XMIN"] = <<"0">>
    /\ Has(parameters, "XWID") /\ parameters["XWID"] = <<"3","0">>
    /\ abscissa.kind = "single"
    /\ Len(abscissa.axes[1]) = 4
    /\ \A j \in 1..4 : REq(abscissa.axes[1][j], RInt(10 * (j - 1)))

\* C10: a Linear axis of N > 1 points whose width parses to zero is exactly
\* 0, 1, ..., N-1 whatever the minimum is; a warning is emitted for the axis
\* and the axis raises nothing.
C10_ZeroWidthAxis ==
    \A i \in 1..3 :
        (AxisDone(i) /\ dimensions[i] > 1 /\ LinearRule(i)
         /\ WidOf(i).ok /\ RIsZero(WidOf(i).val))
            => /\ axis_defined[i]
               /\ Len(abscissa_list[i]) = dimensions[i]
               /\ \A j \in 1..dimensions[i] : abscissa_list[i][j] = RInt(j - 1)
               /\ (Warned("zero_width", i) \/ Warned("minwid_unreadable", i))
               /\ MinOf(i).ok => Warned("zero_width", i)
               /\ ~(pc = "aborted" /\ error.msg = "ntup" /\ ax = i)

\* Three points with minimum 1.5 and width 0.0 were returned as 0, 1, 2.
C10_Witness ==
    /\ pc = "returned"
    /\ dimensions[1] = 3
    /\ LinearRule(1)
    /\ Has(parameters, "XMIN") /\ parameters["XMIN"] = <<"1",".","5">>
    /\ Has(parameters, "XWID") /\ parameters["XWID"] = <<"0",".","0">>
    /\ abscissa_list[1] = <<RInt(0), RInt(1), RInt(2)>>
    /\ Warned("zero_width", 1)

\* The axis block raised nothing for axis i.
AxisRaisedNothing(i) == ~(pc = "aborted" /\ error.msg = "ntup" /\ ax = i)

\* C11: a Linear axis of N > 1 points whose minimum or width is missing or
\* cannot be parsed is exactly 0, 1, ..., N-1; a warning is emitted for the
\* axis and the axis raises nothing.
C11_UnreadableMinWidAxis ==
    \A i \in 1..3 :
        (AxisDone(i) /\ dimensions[i] > 1 /\ LinearRule(i)
         /\ (~MinOf(i).ok \/ ~WidOf(i).ok))
            => /\ axis_defined[i]
               /\ Len(abscissa_list[i]) = dimensions[i]
               /\ \A j \in 1..dimensions[i] : abscissa_list[i][j] = RInt(j - 1)
               /\ Warned("minwid_unreadable", i)
               /\ AxisRaisedNothing(i)

\* Three points without XMIN and with width 30 were returned as 0, 1, 2.
C11_Witness ==
    /\ pc = "returned"
    /\ dimensions[1] = 3
    /\ LinearRule(1)
    /\ ~Has(parameters, "XMIN")
    /\ Has(parameters, "XWID") /\ parameters["XWID"] = <<"3","0">>
    /\ abscissa_list[1] = <<RInt(0), RInt(1), RInt(2)>>
    /\ Warned("minwid_unreadable", 1)

\* Axis i is declared Indexed.
DeclaredIndexed(i) == Has(parameters, TypKey(i)) /\ parameters[TypKey(i)] = sIGD

\* The element type of the companion file of axis i, None when the format
\* code is not in the table.
CompanionType(i) == CompanionFmtMap(Upper(Get(parameters, FmtKey(i), <<"D">>)))

\* The companion file of axis i cannot give N values.
CompanionUnusable(i) ==
    \/ CompanionType(i) = None
    \/ ~Has(fs, CompanionSuffix(i))
    \/ Available(fs[CompanionSuffix(i)], CompanionType(i)) < dimensions[i]

CompanionWarned(i) ==
    \/ Warned("companion_format", i)
    \/ Warned("companion_missing", i)
    \/ Warned("companion_short", i)

\* What the Linear rule yields for axis i: the min/width spacing, 0..N-1 when
\* the minimum or the width is unusable.
LinearYield(i) ==
    IF MinOf(i).ok /\ WidOf(i).ok /\ ~RIsZero(WidOf(i).val)
    THEN \A j \in 0..(dimensions[i] - 1) :
            REq(abscissa_list[i][j + 1],
                Spaced(MinOf(i).val, WidOf(i).val, j, dimensions[i]))
    ELSE \A j \in 1..dimensions[i] : abscissa_list[i][j] = RInt(j - 1)

\* The axis is the first N elements of its companion file.
CompanionValues(i) ==
    \E order \in {"ieee-be", "ieee-le"} :
        \A j \in 1..dimensions[i] :
            abscissa_list[i][j]
                = RInt(Sample(fs[CompanionSuffix(i)], j, CompanionType(i), order))

DeclaredTuple(i) == Has(parameters, TypKey(i)) /\ parameters[TypKey(i)] = sNTUP

\* Some warning is about axis i.
AxisWarned(i) == \E k \in 1..Len(warnings) : warnings[k].axis = i

\* C13: once the dimensions and formats are resolved, a tuple-structured axis
\* on a dimension of size > 1 lets the call get no further than that axis: it
\* ends with a NotImplementedError and nothing is returned.  On a dimension
\* of size <= 1 the type is ignored: no axis, no warning, nothing raised.
C13_TupleAxis ==
    \A i \in 1..3 :
        /\ (Resolved /\ DeclaredTuple(i) /\ dimensions[i] > 1)
              => \/ pc = "axis" /\ ax <= i
                 \/ /\ pc = "aborted"
                    /\ error.exc = "NotImplementedError"
                    /\ ax <= i
                    /\ NothingReturned
        /\ (AxisDone(i) /\ DeclaredTuple(i) /\ dimensions[i] <= 1)
              => /\ AxisRaisedNothing(i)
                 /\ ~axis_defined[i]
                 /\ ~AxisWarned(i)

\* A tuple-structured X axis of three points ended the call.
C13_Witness ==
    /\ pc = "aborted"
    /\ error.exc = "NotImplementedError"
    /\ DeclaredTuple(1)
    /\ dimensions[1] = 3
    /\ Has(fs, DtaSuffix)
    /\ result = <<>>

\* The positions for which an axis was built, and the place of position i
\* among them.
BuiltPositions == {i \in 1..3 : axis_defined[i]}
RankOf(i) == Cardinality({j \in BuiltPositions : j <= i})

\* C14: the returned abscissa is the axis itself when one axis was built, the
\* list of the built axes in the order X, Y, Z when several were, and None
\* when none was.
C14_AbscissaConsolidation ==
    pc = "returned"
        => /\ Cardinality(BuiltPositions) = 0 => abscissa = [kind |-> "none", axes |-> <<>>]
           /\ Cardinality(BuiltPositions) = 1
                 => /\ abscissa.kind = "single"
                    /\ \A i \in BuiltPositions : abscissa.axes = <<abscissa_list[i]>>
           /\ Cardinality(BuiltPositions) > 1
                 => /\ abscissa.kind = "list"
                    /\ Len(abscissa.axes) = Cardinality(BuiltPositions)
                    /\ \A i \in BuiltPositions :
                          abscissa.axes[RankOf(i)] = abscissa_list[i]

\* With a Y axis of unknown type the X and Z axes were returned as a list of
\* two, X first.
C14_Witness ==
    /\ pc = "returned"
    /\ dimensions = <<2, 2, 2>>
    /\ axis_defined = <<TRUE, FALSE, TRUE>>
    /\ abscissa.kind = "list"
    /\ abscissa.axes = << <<RInt(0), RInt(30)>>, <<RInt(0), RInt(1)>> >>

\* C15: every returned axis has as many coordinates as its dimension has
\* points, whatever path built it, and a dimension of size <= 1 has no axis
\* among the returned ones.
C15_AxisLengths ==
    pc = "returned"
        => /\ Len(abscissa.axes) = Cardinality(BuiltPositions)
           /\ \A i \in 1..3 :
                 /\ dimensions[i] <= 1 => ~axis_defined[i]
                 /\ axis_defined[i]
                       => Len(abscissa.axes[RankOf(i)]) = dimensions[i]

\* Three companion values for X and the two index values of a zero-width Y
\* axis were returned.
C15_Witness ==
    /\ pc = "returned"
    /\ dimensions = <<3, 2, 1>>
    /\ DeclaredIndexed(1)
    /\ ~CompanionUnusable(1)
    /\ Warned("zero_width", 2)
    /\ abscissa.kind = "list"
    /\ Len(abscissa.axes[1]) = 3
    /\ Len(abscissa.axes[2]) = 2

\* The scaling stage is over: passed, or ended by an exception of its own.
ScaleDone == pc \in {"coerce", "returned"} \/ (pc = "aborted" /\ error.msg = "gain")
ScalePassed == pc \in {"coerce", "returned"}
HasData == Len(data.flat) > 0
Requested(c) == \E k \in 1..Len(scaling) : scaling[k] = c

\* The corrections applied to the data that carry code c.
AppliedOf(c) == SelectSeq(applied, LAMBDA o : o.code = c)
NotApplied(c) == AppliedOf(c) = <<>>

\* The descriptor's flags: the pre-averaged flag is true; the experiment type
\* is CW, compared without regard to case, an absent type counting as CW.
PreAveraged == Has(parameters, "SctNorm") /\ Lower(parameters["SctNorm"]) = sTrue
ExptIsCw == ~Has(parameters, "EXPT") \/ Upper(parameters["EXPT"]) = sCW

\* The scaling spec without the character c.
Without(sc, c) == SelectSeq(sc, LAMBDA x : x # c)

\* What C16 says of a call that asked for n on pre-averaged data.
PrescaledSkipsN ==
    (HasData /\ Requested("n") /\ PreAveraged)
        => /\ ScalePassed
           /\ NotApplied("n")
           /\ applied = ScaleData(parameters, Without(scaling, "n"), Len(data.flat)).ops
           /\ (Warned("n_prescaled", 0) \/ Warned("n_invalid", 0))

\* C16: asking for n when SctNorm is true leaves the data as it is without n,
\* whatever AVGS is, and a warning is emitted.
C16_PrescaledSkipsN == ScaleDone => PrescaledSkipsN

\* C16 for the calls the scaling stage does not end with an exception.
C16_HoldsWhenScalingPasses == ScalePassed => PrescaledSkipsN

\* What C17 says of a call that asked for P on an experiment that is not CW.
NonCwSkipsP ==
    (HasData /\ Requested("P") /\ ~ExptIsCw)
        => /\ ScalePassed
           /\ NotApplied("P")
           /\ Warned("P_not_cw", 0)

\* C17: asking for P when the experiment type is not CW applies no P
\* correction and emits a warning, whatever MWPW is.
C17_NonCwSkipsP == ScaleDone => NonCwSkipsP

\* C17 for the calls the scaling stage does not end with an exception.
C17_HoldsWhenScalingPasses == ScalePassed => NonCwSkipsP

\* The receiver gain in dB as the descriptor gives it.
GainDb == ScaleFloat(parameters, "RCAG")
GainMissingOrZero == ~Has(parameters, "RCAG") \/ (GainDb.ok /\ RIsZero(GainDb.val))

\* C18: on a CW experiment G divides the data once by 10^(gain_dB/20); with
\* the gain missing or zero nothing is applied and a warning is emitted.
C18_GainCorrection ==
    (ScaleDone /\ HasData /\ Requested("G") /\ ExptIsCw)
        => /\ ScalePassed
           /\ IF GainMissingOrZero
              THEN NotApplied("G") /\ Warned("G_invalid", 0)
              ELSE GainDb.ok => AppliedOf("G") = <<[code |-> "G", by |-> GainDb.val]>>

\* C18 read with the zero test on 10^(gain_dB/20), which is zero only below
\* the smallest double, for the calls the scaling stage does not end with an
\* exception.
C18_HoldsForLinearGainWhenScalingPasses ==
    (ScalePassed /\ HasData /\ Requested("G") /\ ExptIsCw)
        => IF ~GainDb.ok \/ GainIsZero(GainDb.val)
           THEN NotApplied("G") /\ Warned("G_invalid", 0)
           ELSE AppliedOf("G") = <<[code |-> "G", by |-> GainDb.val]>>

\* The correction codes, and two scaling specs holding the same ones.
Codes == {"n", "G", "c", "P", "T"}
SameCodes(a, b) ==
    \A c \in Codes : (\E k \in 1..Len(a) : a[k] = c) <=> (\E k \in 1..Len(b) : b[k] = c)

\* The warnings of the scaling stage, and what the stage did in this call.
ScaleTags == {"n_prescaled", "n_invalid", "G_invalid", "c_invalid", "P_invalid",
              "P_not_cw", "T_zero", "T_invalid"}
ScaleWarnings == SelectSeq(warnings, LAMBDA w : w.w \in ScaleTags)
StageOutcome ==
    [err |-> IF pc = "aborted" THEN error ELSE NoError,
     ops |-> applied,
     warns |-> ScaleWarnings]

\* Every scaling spec with the codes of this call's gives this call's outcome,
\* and no correction is applied twice.
SameCodesSameOutcome ==
    /\ \A sc2 \in ScalingTexts :
          SameCodes(sc2, scaling)
              => ScaleData(parameters, sc2, Len(data.flat)) = StageOutcome
    /\ \A c \in Codes : Len(AppliedOf(c)) <= 1

\* C19: the outcome depends only on the set of correction codes in the
\* scaling spec, not on their order, their repetition or other characters,
\* and each correction is applied at most once.
C19_OnlyCodeSetMatters == ScaleDone => SameCodesSameOutcome

\* C19 for the descriptors whose receiver gain 10^(RCAG/20) is within the
\* range of a double.
C19_HoldsWhenGainFits ==
    (ScaleDone /\ ~(GainDb.ok /\ GainOverflows(GainDb.val))) => SameCodesSameOutcome

\* The skip conditions of the corrections (the zero gain of G is C18's).
Unusable(key) == ~ScaleFloat(parameters, key).ok
NotPositive(key) == Unusable(key) \/ ~RPos(ScaleFloat(parameters, key).val)
SkipN == ~ScaleInt(parameters, "AVGS").ok \/ ScaleInt(parameters, "AVGS").val <= 0
            \/ PreAveraged
SkipG == ExptIsCw /\ Unusable("RCAG")
SkipC == ExptIsCw /\ NotPositive("SPTP")
SkipP == ~ExptIsCw \/ NotPositive("MWPW")
SkipT == Unusable("STMP")
SkipOf(c) ==
    CASE c = "n" -> SkipN
      [] c = "G" -> SkipG
      [] c = "c" -> SkipC
      [] c = "P" -> SkipP
      [] c = "T" -> SkipT

\* Some warning of the scaling stage is about code c.
TagsOf(c) ==
    CASE c = "n" -> {"n_prescaled", "n_invalid"}
      [] c = "G" -> {"G_invalid"}
      [] c = "c" -> {"c_invalid"}
      [] c = "P" -> {"P_invalid", "P_not_cw"}
      [] c = "T" -> {"T_invalid"}
ScaleWarned(c) == \E k \in 1..Len(warnings) : warnings[k].w \in TagsOf(c)

\* A requested correction whose skip condition holds is not applied and warns.
SkippedCorrectionsWarn ==
    \A c \in Codes :
        (HasData /\ Requested(c) /\ SkipOf(c)) => (NotApplied(c) /\ ScaleWarned(c))

\* C20: the scaling stage never ends the call, and a correction whose skip
\* condition holds leaves the data as it was and emits a warning.
C20_ScalingNeverAborts ==
    ScaleDone => (ScalePassed /\ SkippedCorrectionsWarn)

\* The second half of C20 holds throughout.
C20_SkippedCorrectionsWarn == ScalePassed => SkippedCorrectionsWarn

\* What C21 says of a call whose point count is zero.
ZeroCountReturnsEmpty ==
    /\ pc # "aborted"
    /\ data = EmptyArray
    /\ raw_size = 0
    /\ ~Warned("extra_values", 0)

\* C21: when nx*ny*nz = 0 get_matrix returns the empty array whatever the
\* data file is: nothing is read and no FileNotFoundError, short read, odd
\* count or reshape error ends the call.
C21_ZeroCountReturnsEmpty ==
    (MatrixAttempted /\ Prod(dimensions) = 0) => ZeroCountReturnsEmpty

\* C21 for the calls whose data file exists.
C21_HoldsWhenDataFileExists ==
    (MatrixAttempted /\ Prod(dimensions) = 0 /\ Has(fs, DtaSuffix))
        => ZeroCountReturnsEmpty

\* The steps load takes from one stage to the next, in the order of its code.
StageSuccessors ==
    {<<"start", "resolve">>, <<"resolve", "axis">>, <<"axis", "axis">>,
     <<"axis", "matrix">>, <<"matrix", "scale">>, <<"scale", "coerce">>,
     <<"coerce", "returned">>}
     \cup {<<st, "aborted">> : st \in {"start", "resolve", "axis", "matrix", "scale"}}

\* What get_matrix raises once it was called.
MatrixErrors == {"dta", "short_read", "odd_count", "reshape"}

\* The step shows that the data file was looked at.
DataFileTouched ==
    \/ data' # data
    \/ raw_size' # raw_size
    \/ Warned("extra_values", 0)' /\ ~Warned("extra_values", 0)
    \/ error'.msg \in MatrixErrors

\* One step of a load call, as the order of the stages allows it.
StageOrderStep ==
    /\ <<pc, pc'>> \in StageSuccessors
    /\ pc' = "aborted" => (error' # NoError /\ result' = <<>>)
    /\ pc' # "aborted" => error' = NoError
    /\ DataFileTouched =>
          /\ pc = "matrix" /\ ax = 3
          /\ number_format # None /\ dimensions[1] # 0
          /\ abscissa' = Consolidate(abscissa_list, axis_defined)
    /\ parameters' # parameters => pc = "start"
    /\ pc = "scale" => result = <<>>
    /\ (applied' # applied \/ pc = "scale") =>
          /\ applied' = applied \o ScaleData(parameters, scaling, Len(data.flat)).ops
          /\ parameters = AliasKeys(fs[DscSuffix]).d
    /\ result' # result => (pc = "coerce" /\ pc' = "returned")

\* C22: load runs its stages strictly in the order DescriptorParser,
\* FormatResolver, AxisBuilder, MatrixReader, ScalingPipeline,
\* ParameterCoercer: the data file is looked at only when dimensions, flags,
\* byte order and format are resolved and the axis loop is over, scaling
\* works on the descriptor's strings before they are coerced, and a stage
\* that raises is the last one to run and leaves no result.
C22_StageOrder == [][StageOrderStep]_vars

C22_Witness ==
    /\ pc = "returned"
    /\ applied # <<>>
    /\ data # EmptyArray
    /\ abscissa # NoAbscissa
    /\ result # <<>>

\* The second of two equal calls is over.
SecondCallDone == previous # <<>> /\ pc \in {"returned", "aborted"}

\* C23: load is a function of its arguments and the files: the second of two
\* calls with equal arguments on unchanged files returns what the first
\* returned, or raises what it raised, and emits the same diagnostics.
C23_EqualCallsEqualOutcomes == SecondCallDone => Outcome = previous[1]

\* C23 without the diagnostics: what is returned or raised is the same.
C23_HoldsForReturnedValues ==
    SecondCallDone =>
        /\ Outcome.data = previous[1].data
        /\ Outcome.applied = previous[1].applied
        /\ Outcome.abscissa = previous[1].abscissa
        /\ Outcome.parameters = previous[1].parameters
        /\ Outcome.error = previous[1].error

\* C23 in a process whose filter shows every warning.
C23_HoldsWhenEveryWarningIsShown ==
    (SecondCallDone /\ warnings_mod.action = "always") => Outcome = previous[1]

\* What parse_field_params gives for a text: the int, the float or the str.
AsInt(k) == [t |-> "int", i |-> k, f |-> Rat(0, 1), s |-> <<>>]
AsFloat(n, d) == [t |-> "float", n |-> n, d |-> d]
AsStr(v) == [t |-> "str", i |-> 0, f |-> Rat(0, 1), s |-> v]

\* Texts with the values Python gives them.
CoercionExamples ==
    {<<<<"1","2">>, AsInt(12)>>, <<<<"-","3">>, AsInt(-3)>>,
     <<<<"+","7">>, AsInt(7)>>, <<<<"1","_","0">>, AsInt(10)>>,
     <<<<" ","1","2"," ">>, AsInt(12)>>, <<<<"0","0","7">>, AsInt(7)>>,
     <<<<"2">>, AsInt(2)>>, <<<<"1">>, AsInt(1)>>,
     <<<<"1",".","5">>, AsFloat(3, 2)>>, <<<<".","5">>, AsFloat(1, 2)>>,
     <<<<"5",".">>, AsFloat(5, 1)>>, <<<<"1","e","3">>, AsFloat(1000, 1)>>,
     <<<<"1","E","-","2">>, AsFloat(1, 100)>>,
     <<<<"-",".","5","e","+","1">>, AsFloat(-5, 1)>>,
     <<<<"1",".","5","\n">>, AsFloat(3, 2)>>, <<<<"2",".","0">>, AsFloat(2, 1)>>}

\* r is the coerced value the example e names.
Matches(r, e) ==
    IF e.t = "float" THEN r.t = "float" /\ REq(r.f, Rat(e.n, e.d)) ELSE r = e

\* The texts of ValueTexts that stay strings.
KeptTexts == ValueTexts \ {e[1] : e \in CoercionExamples}

\* The coerced value of one entry is as the claim has it.
CoercedAsClaimed(v, r) ==
    /\ IntParse(v).ok => r = AsInt(IntParse(v).val)
    /\ (~IntParse(v).ok /\ NumberReMatch(v)) => r.t = "float"
    /\ (~IntParse(v).ok /\ ~NumberReMatch(v)) => r = AsStr(v)
    /\ \A e \in CoercionExamples : v = e[1] => Matches(r, e[2])
    /\ v \in KeptTexts => r = AsStr(v)

\* C24: the returned parameters have exactly the keys of the descriptor,
\* alias keys included; a value is the int when int() takes the string, else
\* the float when the string matches _NUMBER_RE, else the string itself.
C24_ParameterCoercion ==
    pc = "returned" =>
        /\ DOMAIN result = DOMAIN parameters
        /\ \A k \in DOMAIN parameters : CoercedAsClaimed(parameters[k], result[k])

C24_Witness ==
    /\ pc = "returned"
    /\ Has(result, "XAXIS_NAME") /\ result["XAXIS_NAME"].t = "str"
    /\ result["XPTS"].t = "int"
    /\ result["TITL"].t = "float"

\* read_dsc_file returned the descriptor it parsed from the text.
ParsedFromText ==
    /\ pc \notin {"start", "join", "continue", "parse"}
    /\ error.msg \notin {"dsc", "unit"}

\* The k-th logical line is a key/value line whose key starts with a letter.
EntryLine(k) ==
    /\ SplitOnce(processed_lines[k]).key # <<>>
    /\ StartsWithLetter(SplitOnce(processed_lines[k]).key)
EntryKey(k) == KeyStr(SplitOnce(processed_lines[k]).key)
EntryValue(k) == Unquote(SplitOnce(processed_lines[k]).rest)

\* The k-th logical line has the history marker as its key.
MarkerLine(k) == Upper(SplitOnce(processed_lines[k]).key) = sMHL

\* The index of the first marker line, past the last line when there is none.
FirstMarker ==
    IF \E k \in 1..Len(processed_lines) : MarkerLine(k)
    THEN CHOOSE k \in 1..Len(processed_lines) :
            MarkerLine(k) /\ \A j \in 1..(k - 1) : ~MarkerLine(j)
    ELSE Len(processed_lines) + 1

AliasNames == {"XAXIS_NAME", "XAXIS_UNIT", "YAXIS_NAME", "YAXIS_UNIT"}

\* The entry of key k comes from the last line before the marker that has k.
FromBeforeMarker(k) ==
    \E j \in 1..(FirstMarker - 1) :
        /\ EntryLine(j) /\ EntryKey(j) = k
        /\ parameters[k] = EntryValue(j)
        /\ \A n \in (j + 1)..(FirstMarker - 1) : ~(EntryLine(n) /\ EntryKey(n) = k)

\* C25: parsing stops at the first logical line whose key is #MHL: the
\* descriptor holds nothing of that line or of a later one, and it holds the
\* key of every key/value line before it, with the value the last such line
\* gives the key.
C25_HistoryMarkerStopsParsing ==
    ParsedFromText =>
        /\ \A k \in DOMAIN parameters \ AliasNames : FromBeforeMarker(k)
        /\ \A j \in 1..(FirstMarker - 1) :
              EntryLine(j) => Has(parameters, EntryKey(j))

C25_Witness ==
    /\ pc = "returned"
    /\ FirstMarker <= Len(processed_lines)
    /\ \E j \in (FirstMarker + 1)..Len(processed_lines) :
          EntryLine(j) /\ ~Has(parameters, EntryKey(j))
    /\ \E j \in (FirstMarker + 1)..Len(processed_lines) :
          /\ EntryLine(j) /\ Has(parameters, EntryKey(j))
          /\ parameters[EntryKey(j)] # EntryValue(j)

\* The continuation-joining pass is over.
JoinDone == pc \notin {"start", "join", "continue"}

\* The physical line of index j (from 0), stripped.
Physical(j) == Strip(fs[DscSuffix][j + 1])

\* The index of the last physical line of the k-th logical line.
LastOf(k) ==
    IF k < Len(starts) THEN starts[k + 1] - 1 ELSE Len(fs[DscSuffix]) - 1

RECURSIVE JoinedText(_, _)
\* The physical lines a..b joined, one character dropped at each join.
JoinedText(a, b) ==
    IF b <= a THEN Physical(a)
    ELSE SubSeq(JoinedText(a, b - 1), 1, Len(JoinedText(a, b - 1)) - 1)
            \o Physical(b)

RECURSIVE WithoutMarkers(_)
\* A text without the markers it ends in.
WithoutMarkers(l) ==
    IF Len(l) > 0 /\ l[Len(l)] = Marker
    THEN WithoutMarkers(SubSeq(l, 1, Len(l) - 1))
    ELSE l

\* The k-th logical line is its physical lines joined: each line but the
\* last ended in a marker before the next was joined to it, and the last
\* ends in none unless the file ends there.
JoinedExactly(k) ==
    /\ \A c \in starts[k]..(LastOf(k) - 1) :
          JoinedText(starts[k], c)[Len(JoinedText(starts[k], c))] = Marker
    /\ IF LastOf(k) = Len(fs[DscSuffix]) - 1
       THEN processed_lines[k]
               = ReplaceEscaped(WithoutMarkers(JoinedText(starts[k], LastOf(k))))
       ELSE /\ processed_lines[k] = ReplaceEscaped(JoinedText(starts[k], LastOf(k)))
            /\ WithoutMarkers(JoinedText(starts[k], LastOf(k)))
                  = JoinedText(starts[k], LastOf(k))

\* Every physical line went into exactly one logical line.
EachLineOnce ==
    /\ Len(processed_lines) = Len(starts)
    /\ Len(starts) > 0 /\ starts[1] = 0
    /\ \A k \in 1..Len(starts) : starts[k] <= LastOf(k)
    /\ \A k \in 1..Len(starts) : JoinedExactly(k)

\* C30: the continuation-joining pass ends for every descriptor text, also
\* when the last line ends in markers; every physical line goes into exactly
\* one logical line and each join strips exactly one marker.
C30_JoiningTerminates ==
    /\ [](JoinDone /\ Has(fs, DscSuffix) => EachLineOnce)
    /\ <>JoinDone

C30_Witness ==
    /\ pc = "returned"
    /\ Len(processed_lines) < Len(fs[DscSuffix]) - 1
    /\ i_lines > Len(fs[DscSuffix]) + 1

\* The descriptor as parsed names the axis: nam is there with a value.
Named(nam) == Has(fs[DscSuffix], nam) /\ fs[DscSuffix][nam] # <<>>

\* read_dsc_file gave the canonical keys cname and cuni for the axis.
Canonical(nam, uni, cname, cuni) ==
    /\ pc # "aborted" \/ error # Err("KeyError", "unit")
    /\ Has(parameters, cname) /\ parameters[cname] = fs[DscSuffix][nam]
    /\ Has(fs[DscSuffix], uni) =>
          (Has(parameters, cuni) /\ parameters[cuni] = fs[DscSuffix][uni])

\* C26: a descriptor that has XNAM (YNAM) with a non-empty value parses, and
\* holds XAXIS_NAME (YAXIS_NAME) equal to it, whether or not XUNI (YUNI) is
\* there; XAXIS_UNIT (YAXIS_UNIT) is set when the unit key is there.
C26_AxisNameAliases ==
    pc # "start" =>
        /\ Named("XNAM") => Canonical("XNAM", "XUNI", "XAXIS_NAME", "XAXIS_UNIT")
        /\ Named("YNAM") => Canonical("YNAM", "YUNI", "YAXIS_NAME", "YAXIS_UNIT")

\* Every named axis has its unit key.
UnitsGiven ==
    /\ Named("XNAM") => Has(fs[DscSuffix], "XUNI")
    /\ Named("YNAM") => Has(fs[DscSuffix], "YUNI")

\* C26 for the descriptors that give a unit with every axis name.
C26_HoldsWhenUnitsGiven == UnitsGiven => C26_AxisNameAliases

\* The calls made on the object that name the key k.
CallsOn(k) ==
    {n \in 1..Len(h5log.calls) : h5log.calls[n].op # "sync" /\ h5log.calls[n].key = k}

\* The last call that names k is of one of the methods ops, with any value.
LastCallIs(k, ops) ==
    /\ CallsOn(k) # {}
    /\ h5log.calls[CHOOSE n \in CallsOn(k) : \A m \in CallsOn(k) : m <= n].op \in ops

LastValue(k) ==
    h5log.calls[CHOOSE n \in CallsOn(k) : \A m \in CallsOn(k) : m <= n].value

\* The last call on the object was sync.
JustSynced ==
    /\ Len(h5log.calls) > 0
    /\ h5log.calls[Len(h5log.calls)].op = "sync"

\* The node holds what the calls made on the object ask for.
NodeAsCalled ==
    \A k \in H5Keys :
        /\ LastCallIs(k, {"set_attr"}) =>
              (Has(h5node.attrs, k) /\ h5node.attrs[k] = LastValue(k))
        /\ LastCallIs(k, {"set_dataset"}) =>
              (Has(h5node.items, k) /\ h5node.items[k] = LastValue(k))
        /\ LastCallIs(k, {"delete_attr", "delete_dataset"}) =>
              (~Has(h5node.attrs, k) /\ ~Has(h5node.items, k))

\* The node holds exactly the attributes and datasets of the object.
NodeIsObject ==
    /\ DOMAIN h5node.attrs = h5obj.attrs_keys
    /\ DOMAIN h5node.items = h5obj.datasets_keys
    /\ \A k \in h5obj.attrs_keys : Has(h5obj.dict, k) /\ h5node.attrs[k] = h5obj.dict[k]
    /\ \A k \in h5obj.datasets_keys : Has(h5obj.dict, k) /\ h5node.items[k] = h5obj.dict[k]

\* C27: on a writable H5Object sync() raises nothing after any calls of
\* set_attr, set_dataset, delete_attr and delete_dataset, and leaves in the
\* node exactly the object's state: what was last set as an attribute or as
\* a dataset is there with its value, what was last deleted is not; on an
\* object that is not writable sync() raises RuntimeError and the node stays
\* as it was opened.
C27_SyncWritesObjectState ==
    /\ ~h5obj.writable => h5node = h5log.opened
    /\ JustSynced =>
          IF h5obj.writable
          THEN h5raised = NoError /\ NodeAsCalled /\ NodeIsObject
          ELSE h5raised = Err("RuntimeError", "not_writable")

\* A key is used as an attribute, or as a dataset, by the opened node or by
\* a call.
UsedAsAttr(k) ==
    \/ Has(h5log.opened.attrs, k)
    \/ \E n \in CallsOn(k) : h5log.calls[n].op \in {"set_attr", "delete_attr"}
UsedAsDataset(k) ==
    \/ Has(h5log.opened.items, k)
    \/ \E n \in CallsOn(k) : h5log.calls[n].op \in {"set_dataset", "delete_dataset"}

\* C27 for the objects on which no key is used both as an attribute and as
\* a dataset.
C27_HoldsWhenKindsAreKept ==
    (\A k \in H5Keys : ~(UsedAsAttr(k) /\ UsedAsDataset(k)))
        => C27_SyncWritesObjectState

\* The dimensions of more than one point, and the rank of one among them.
WideDims == {i \in 1..3 : dimensions[i] > 1}
WideRank(i) == Cardinality({j \in WideDims : j <= i})

\* The k-th returned axis belongs to the k-th dimension of more than one
\* point: it is the axis built at that position.
AxesFollowDims ==
    /\ Len(abscissa.axes) = Cardinality(WideDims)
    /\ \A i \in WideDims :
          axis_defined[i] /\ abscissa.axes[WideRank(i)] = abscissa_list[i]

\* C28: whenever load returns, the abscissa has one axis for every dimension
\* of more than one point, whatever the axis-type keys hold, and the k-th
\* axis belongs to the k-th such dimension in the order X, Y, Z.
C28_OneAxisPerWideDimension == pc = "returned" => AxesFollowDims

\* The axis-type key of every dimension of more than one point is absent or
\* a type load knows.
KnownAxisTypes ==
    \A i \in WideDims :
        Has(parameters, TypKey(i)) => parameters[TypKey(i)] \in {sIDX, sIGD}

\* C28 for the descriptors whose axis types load knows.
C28_HoldsForKnownAxisTypes ==
    (pc = "returned" /\ KnownAxisTypes) => AxesFollowDims

\* The scaling stage raises for the scaling spec sc on this call's
\* descriptor and data.
ScalingAborts(sc) == ScaleData(parameters, sc, Len(data.flat)).err # NoError

\* Every scaling spec leaves load to abort, or to go on, as this call's did.
SameAbortForEverySpec ==
    \A sc2 \in ScalingTexts : ScalingAborts(sc2) <=> (pc = "aborted")

\* What the stages before the scaling stage gave is what the files give,
\* whatever the scaling spec, and the returned parameters are the coerced
\* entries of the descriptor as parsed.
OnlyDataScaled ==
    /\ parameters = AliasKeys(fs[DscSuffix]).d
    /\ abscissa = Consolidate(abscissa_list, axis_defined)
    /\ \A i \in 1..3 :
          abscissa_list[i] = BuildAxis(parameters, fs, i, dimensions[i]).axis
    /\ data \in {m.data : m \in GetMatrix(fs, DtaSuffix, dimensions, number_format,
                                           byte_order, is_complex[1])}
    /\ pc = "returned" => result = ParseFieldParams(AliasKeys(fs[DscSuffix]).d)

\* C29: the scaling spec bears on the data values only: the abscissa, the
\* returned parameters, the shape of the data and whether load aborts are
\* the same for every scaling spec, and no stage between the parser and the
\* coercion changes an entry of the descriptor.
C29_ScalingTouchesOnlyData ==
    ScaleDone => (SameAbortForEverySpec /\ OnlyDataScaled)

\* C29 for the descriptors whose receiver gain 10^(RCAG/20) is within the
\* range of a double.
C29_HoldsWhenGainFits ==
    (ScaleDone /\ ~(GainDb.ok /\ GainOverflows(GainDb.val)))
        => (SameAbortForEverySpec /\ OnlyDataScaled)

\* The frame of C29 holds throughout.
C29_OnlyDataScaled == ScaleDone => OnlyDataScaled

====
